---- MODULE Spec2Model ----
(***************************************************************************)
(* Column-lineage scripts of the repository, as one state machine.         *)
(* Each behaviour runs one script (variable script).  Python strings are   *)
(* sequences of one-character strings, so that substring tests, split('.') *)
(* and lower() are computed and not assumed.                                *)
(***************************************************************************)
EXTENDS Integers, Sequences, FiniteSets, TLC

(***************************************************************************)
(* Bounds of the model                                                     *)
(***************************************************************************)
MaxMappings == 3

MaxRecords == 3

MaxDepth == 3

MaxCalls == 1

MaxStatements == 3

(***************************************************************************)
(* Vocabulary: the words the table and column names are made of            *)
(***************************************************************************)
w_staging == <<"s","t","a","g","i","n","g">>
w_stage == <<"s","t","a","g","e">>
w_src == <<"s","r","c">>
w_source == <<"s","o","u","r","c","e">>
w_raw == <<"r","a","w">>
w_input == <<"i","n","p","u","t">>
w_import == <<"i","m","p","o","r","t">>
w_ext == <<"e","x","t">>
w_external == <<"e","x","t","e","r","n","a","l">>
w_ref == <<"r","e","f">>
w_reference == <<"r","e","f","e","r","e","n","c","e">>
w_lookup == <<"l","o","o","k","u","p">>
w_dim == <<"d","i","m">>
w_fact == <<"f","a","c","t">>
w_core == <<"c","o","r","e">>
w_final == <<"f","i","n","a","l">>
w_output == <<"o","u","t","p","u","t">>
w_dest == <<"d","e","s","t">>
w_destination == <<"d","e","s","t","i","n","a","t","i","o","n">>
w_prod == <<"p","r","o","d">>
w_production == <<"p","r","o","d","u","c","t","i","o","n">>
w_audit == <<"a","u","d","i","t">>
w_log == <<"l","o","g">>
w_history == <<"h","i","s","t","o","r","y">>
w_archive == <<"a","r","c","h","i","v","e">>
w_summary == <<"s","u","m","m","a","r","y">>
w_agg == <<"a","g","g">>
w_aggregate == <<"a","g","g","r","e","g","a","t","e">>
w_hash == <<"#">>
w_temp == <<"t","e","m","p">>
w_tmp == <<"t","m","p">>
w_work == <<"w","o","r","k">>
w_buffer == <<"b","u","f","f","e","r">>
w_cache == <<"c","a","c","h","e">>
w_intermediate == <<"i","n","t","e","r","m","e","d","i","a","t","e">>
w_process == <<"p","r","o","c","e","s","s">>
w_transform == <<"t","r","a","n","s","f","o","r","m">>
w_enrich == <<"e","n","r","i","c","h">>
w_clean == <<"c","l","e","a","n">>
w_ops == <<"o","p","s">>
w_unknown == <<"u","n","k","n","o","w","n">>
w_dbo == <<"d","b","o">>
w_misc == <<"m","i","s","c">>
w_fin == <<"f","i","n">>
w_t == <<"t">>
w_a == <<"a">>
w_id == <<"i","d">>
w_rid == <<"r","i","d">>
w_txnexternalid == <<"t","x","n","e","x","t","e","r","n","a","l","i","d">>
w_idempotencykey == <<"i","d","e","m","p","o","t","e","n","c","y","k","e","y">>
w_accountno == <<"a","c","c","o","u","n","t","n","o">>
w_accountid == <<"a","c","c","o","u","n","t","i","d">>
w_txndate == <<"t","x","n","d","a","t","e">>
w_postingdate == <<"p","o","s","t","i","n","g","d","a","t","e">>
w_valuedate == <<"v","a","l","u","e","d","a","t","e">>
w_batchdate == <<"b","a","t","c","h","d","a","t","e">>
w_createdat == <<"c","r","e","a","t","e","d","a","t">>
w_amount == <<"a","m","o","u","n","t">>
w_amountbase == <<"a","m","o","u","n","t","b","a","s","e">>
w_channel == <<"c","h","a","n","n","e","l">>
w_feeamount == <<"f","e","e","a","m","o","u","n","t">>
w_hashid == <<"h","a","s","h","i","d">>
w_srcid == <<"s","r","c","i","d">>
w_batchid == <<"b","a","t","c","h","i","d">>
w_fromccy == <<"f","r","o","m","c","c","y">>
w_fromcurrency == <<"f","r","o","m","c","u","r","r","e","n","c","y">>
w_toccy == <<"t","o","c","c","y">>
w_tocurrency == <<"t","o","c","u","r","r","e","n","c","y">>
w_fxrate == <<"f","x","r","a","t","e">>
w_rate == <<"r","a","t","e">>
w_joinmap == <<"j","o","i","n","m","a","p">>
w_default_hash == <<"<","d","e","f","a","u","l","t",">",".","#">>
w_valid == <<"v","a","l","i","d">>
w_invalid == <<"i","n","v","a","l","i","d">>
w_fees == <<"f","e","e","s">>
w_post == <<"p","o","s","t">>
w_bal == <<"b","a","l">>
w_scores == <<"s","c","o","r","e","s">>
w_ledger == <<"l","e","d","g","e","r">>
w_default == <<"<","d","e","f","a","u","l","t",">">>
w_staging_work == <<"s","t","a","g","i","n","g","_","w","o","r","k">>
w_ref_temp == <<"r","e","f","_","t","e","m","p">>
w_x == <<"x">>
w_j == <<"j">>
w_r == <<"r">>
UpperCase == <<"A","B","C","D","E","F","G","H","I","J","K","L","M","N","O","P","Q","R","S","T","U","V","W","X","Y","Z">>
LowerCase == <<"a","b","c","d","e","f","g","h","i","j","k","l","m","n","o","p","q","r","s","t","u","v","w","x","y","z">>
CodePoints == <<" ","#","-",".","0","1","2","3","4","5","6","7","8","9","<",">","A","B","C","D","E","F","G","H","I","J","K","L","M","N","O","P","Q","R","S","T","U","V","W","X","Y","Z","[","]","_","a","b","c","d","e","f","g","h","i","j","k","l","m","n","o","p","q","r","s","t","u","v","w","x","y","z">>

(***************************************************************************)
(* Python built-ins the scripts use                                        *)
(***************************************************************************)
Range(s) == {s[i] : i \in DOMAIN s}

Front(s) == SubSeq(s, 1, Len(s) - 1)

\* a + "." + b
Dot(a, b) == a \o <<".">> \o b

\* pat in s, for strings
Contains(pat, s) ==
    \E i \in 1..(Len(s) - Len(pat) + 1) : SubSeq(s, i, i + Len(pat) - 1) = pat

\* any(pattern in s for pattern in patterns)
AnyContains(patterns, s) == \E i \in DOMAIN patterns : Contains(patterns[i], s)

\* s.startswith(pre)
StartsWith(s, pre) == Len(pre) <= Len(s) /\ SubSeq(s, 1, Len(pre)) = pre

\* '.' in s, which is also len(s.split('.')) >= 2
HasDot(s) == "." \in Range(s)

LastDot(s) == CHOOSE i \in DOMAIN s : s[i] = "." /\ \A j \in DOMAIN s : s[j] = "." => j <= i

FirstDot(s) == CHOOSE i \in DOMAIN s : s[i] = "." /\ \A j \in DOMAIN s : s[j] = "." => i <= j

\* '.'.join(s.split('.')[:-1])
TablePart(s) == IF HasDot(s) THEN SubSeq(s, 1, LastDot(s) - 1) ELSE <<>>

\* s.split('.')[-1]
ColumnPart(s) == IF HasDot(s) THEN SubSeq(s, LastDot(s) + 1, Len(s)) ELSE s

LowerChar(c) ==
    IF \E i \in DOMAIN UpperCase : UpperCase[i] = c
    THEN LowerCase[CHOOSE i \in DOMAIN UpperCase : UpperCase[i] = c]
    ELSE c

\* s.lower()
Lower(s) == [i \in DOMAIN s |-> LowerChar(s[i])]

CodePoint(c) == CHOOSE i \in DOMAIN CodePoints : CodePoints[i] = c

\* a < b, for strings
StrLess(a, b) ==
    \E i \in 1..Len(b) :
        /\ i <= Len(a) + 1
        /\ SubSeq(a, 1, i - 1) = SubSeq(b, 1, i - 1)
        /\ (i = Len(a) + 1 \/ CodePoint(a[i]) < CodePoint(b[i]))

RECURSIVE Flatten(_)
\* the concatenation of a list of lists
Flatten(ss) == IF ss = <<>> THEN <<>> ELSE Head(ss) \o Flatten(Tail(ss))

\* the orders in which iterating the set S can yield its elements
Perms(S) == {f \in [1..Cardinality(S) -> S] : \A i, j \in DOMAIN f : f[i] = f[j] => i = j}

\* the entries of seq at the indices in keep, in order
Pick(seq, keep) ==
    LET Nth(n) == CHOOSE i \in keep : Cardinality({j \in keep : j <= i}) = n
    IN  [n \in 1..Cardinality(keep) |-> seq[Nth(n)]]

NoRepeat(p) == \A i, j \in DOMAIN p : p[i] = p[j] => i = j

\* a dict: its keys in insertion order and its values
EmptyDict == [keys |-> <<>>, val |-> <<>>]

DictHas(d, k) == k \in Range(d.keys)

DictGet(d, k, default) == IF DictHas(d, k) THEN d.val[k] ELSE default

DictPut(d, k, v) ==
    [keys |-> IF DictHas(d, k) THEN d.keys ELSE Append(d.keys, k),
     val |-> [x \in Range(d.keys) \cup {k} |-> IF x = k THEN v ELSE d.val[x]]]

DictValues(d) == {d.val[k] : k \in Range(d.keys)}

\* for each set-valued entry of d, an order in which the set is iterated
IterationOrders(d) ==
    LET keys == Range(d.keys)
        \* the keys whose set can be iterated in more than one order
        multi == {k \in keys : Cardinality(d.val[k]) > 1}
        choices == {f \in [multi -> UNION {Perms(d.val[k]) : k \in multi}] :
                      \A k \in multi : f[k] \in Perms(d.val[k])}
    IN  {[k \in keys |-> IF k \in multi THEN f[k] ELSE CHOOSE p \in Perms(d.val[k]) : TRUE] :
            f \in choices}

(***************************************************************************)
(* Names the inputs are drawn from                                         *)
(***************************************************************************)
\* None or the empty string: the values Python takes as false
None == <<>>

t_staging_t == Dot(w_staging, w_t)
t_ref_a == Dot(w_ref, w_a)
t_raw == w_hash \o w_raw
t_core_fin == Dot(w_core, w_fin)
t_core_work == Dot(w_core, w_work)
t_dbo_misc == Dot(w_dbo, w_misc)
\* the same table as t_core_fin, written Core.Fin in the SQL text
t_Core_Fin == <<"C","o","r","e",".","F","i","n">>

c_staging_t_id == Dot(t_staging_t, w_id)
c_ref_a_id == Dot(t_ref_a, w_id)
c_raw_rid == Dot(t_raw, w_rid)
c_core_fin_id == Dot(t_core_fin, w_id)
c_core_work_id == Dot(t_core_work, w_id)
c_dbo_misc_id == Dot(t_dbo_misc, w_id)

\* temp tables of the enhanced and the advanced script
t_x == w_hash \o w_x
t_j == w_hash \o w_j
t_r == w_hash \o w_r

c_x_rid == Dot(t_x, w_rid)
c_j_rid == Dot(t_j, w_rid)
c_r_rid == Dot(t_r, w_rid)

\* The SQL scripts: statement n of a script either yields the column-lineage
\* tuple (first column, last column) number n of this list or none
LineageTuples ==
    << <<c_staging_t_id, c_raw_rid>>, <<c_raw_rid, c_core_fin_id>>,
       <<c_raw_rid, c_core_work_id>>, <<c_core_work_id, c_raw_rid>>,
       <<c_staging_t_id, c_core_fin_id>>, <<c_ref_a_id, c_raw_rid>>,
       <<c_raw_rid, c_raw_rid>>, <<c_staging_t_id, c_dbo_misc_id>>,
       <<c_dbo_misc_id, c_core_fin_id>> >>

\* the SQL texts, each as the table names that follow INSERT INTO, MERGE or
\* UPDATE in it
ProcedureBodies ==
    { {}, {t_Core_Fin}, {t_Core_Fin, t_core_work}, {t_core_work, t_raw},
      {t_ref_a}, {t_ref_a, t_Core_Fin}, {t_dbo_misc, t_Core_Fin} }

\* The statements sqllineage is run on in the enhanced and the advanced
\* script, each as the column-lineage tuples it yields; a script is a
\* selection of these statements in this order
Statements ==
    << << <<c_staging_t_id, c_raw_rid>>, <<c_raw_rid, c_x_rid>> >>,
       << <<c_x_rid, c_j_rid>>, <<c_j_rid, c_r_rid>> >>,
       << <<c_r_rid, c_core_fin_id>> >>,
       << <<c_x_rid, c_core_fin_id>> >>,
       << <<c_staging_t_id, c_x_rid>> >>,
       << <<c_x_rid, c_raw_rid>> >>,
       << <<c_ref_a_id, c_raw_rid>>, <<c_raw_rid, c_raw_rid>> >> >>

VARIABLES
    script,               \* the script this behaviour runs
    pc,                   \* how far the script has got
    \* the SQL parsers (generic, hybrid, enhanced)
    procedure_body,       \* the SQL text, as the table names its DML statements write
    column_mappings,      \* self.column_mappings
    end_to_end_mappings,  \* self.end_to_end_mappings; expected_final_mappings once validated
    all_mappings,         \* the mappings of the last trace before duplicates are removed;
                          \* traced_mappings of the advanced script
    sorted_mappings,      \* the mapping table of the last report: [printed, rows]
    \* the metadata scripts (lineage_analyzer, end_to_end_lineage_tracer)
    metadata,             \* the C# metadata JSON: its column_lineages lists
    forward_graph,        \* LineageAnalyzer.forward_graph; table_flow of the ultimate script
    reverse_graph,        \* .reverse_graph of the analyzer and of the tracer; lineage_map
    all_columns,          \* LineageAnalyzer.all_columns
    lineage_graph,        \* EndToEndLineageTracer.lineage_graph
    column_metadata,      \* EndToEndLineageTracer.column_metadata
    calls,                \* the number of calls made to the object
    \* what the last call was given and what it returned, empty where the call
    \* has no such argument or result
    query,                \* the start, the goal and the depth limit; sql_content
    found_paths,          \* the paths a path search returned
    found_columns,        \* the columns find_ultimate_sources/_targets returned
    lineages,             \* the lineages generate_end_to_end_lineages returned; final_lineage
    \* enhanced_lineage_parser
    schema,               \* the schema JSON: table -> its column names
    source_tables,        \* self.source_tables (of the dicts of the SQL parsers, the keys)
    target_tables,        \* self.target_tables
    intermediate_tables,  \* self.intermediate_tables; cte_names of lineage_parser.py
    column_flows,         \* self.column_flows; the lists column_flows, all_lineage_tuples
    table_column_map,     \* self.table_column_map
    column_table_map,     \* self.column_table_map
    dml_statements,       \* the numbers of the statements processed so far
    \* hybrid_sql_lineage_parser
    csharp_metadata,      \* self.csharp_metadata
    \* advanced_lineage_tracer
    table_categories,     \* table_categories; all_tables of the ultimate script
    \* a search that runs step by step
    frames                \* the call in progress: its stack or queue and what it found

parserVars ==
    <<procedure_body, column_mappings, all_mappings, end_to_end_mappings, sorted_mappings>>

graphVars == <<metadata, forward_graph, reverse_graph, all_columns, lineage_graph, column_metadata>>

resultVars == <<calls, query, found_paths, found_columns, lineages>>

schemaVars ==
    <<schema, source_tables, target_tables, intermediate_tables, column_flows,
      table_column_map, column_table_map>>

extVars == <<schemaVars, dml_statements, csharp_metadata, table_categories, frames>>

vars == <<script, pc, parserVars, graphVars, resultVars, extVars>>

NoMetadata ==
    [real_to_real |-> <<>>, temp_involved |-> <<>>, source_tables |-> {}, target_tables |-> {}]

NoQuery == [source |-> None, target |-> None, max_depth |-> 0]

NoCsharpMetadata ==
    [source_tables |-> <<>>, target_tables |-> <<>>, column_lineages |-> <<>>,
     merge_patterns |-> <<>>]

NoCategories == [source |-> {}, intermediate |-> {}, target |-> {}]

\* no call in progress
NoFrames ==
    [kind |-> "none", done |-> FALSE, stack |-> <<>>, queue |-> <<>>, paths |-> <<>>,
     closure |-> <<>>]

(***************************************************************************)
(* generic_sql_lineage_parser.py                                           *)
(***************************************************************************)
source_patterns ==
    <<w_staging, w_stage, w_src, w_source, w_raw, w_input, w_import,
      w_ext, w_external, w_ref, w_reference, w_lookup, w_dim, w_fact>>

target_patterns ==
    <<w_core, w_final, w_output, w_dest, w_destination, w_prod, w_production,
      w_audit, w_log, w_history, w_archive, w_summary, w_agg, w_aggregate>>

intermediate_patterns ==
    <<w_hash, w_temp, w_tmp, w_work, w_staging, w_buffer, w_cache,
      w_intermediate, w_process, w_transform, w_enrich, w_clean>>

_categorize_table(table_name) ==
    LET table_lower == Lower(table_name)
    IN  IF AnyContains(intermediate_patterns, table_lower) THEN "intermediate"
        ELSE IF AnyContains(source_patterns, table_lower) THEN "source"
        ELSE IF AnyContains(target_patterns, table_lower) THEN "target"
        ELSE "unknown"

\* the dict appended to self.column_mappings for one column-lineage tuple
ColumnMapping(mapping, i) ==
    [source_column |-> IF mapping[1] # None THEN mapping[1] ELSE w_unknown,
     target_column |-> IF mapping[2] # None THEN mapping[2] ELSE w_unknown,
     statement_num |-> i]

RECURSIVE BuildFlowGraph(_)
\* all_flows and column_to_table, built from self.column_mappings
BuildFlowGraph(mappings) ==
    IF mappings = <<>>
    THEN [all_flows |-> EmptyDict, column_to_table |-> EmptyDict]
    ELSE LET g == BuildFlowGraph(Front(mappings))
             mapping == mappings[Len(mappings)]
             source_col == Lower(mapping.source_column)
             target_col == Lower(mapping.target_column)
             c1 == IF HasDot(source_col)
                   THEN DictPut(g.column_to_table, source_col, TablePart(source_col))
                   ELSE g.column_to_table
             c2 == IF HasDot(target_col)
                   THEN DictPut(c1, target_col, TablePart(target_col))
                   ELSE c1
         IN  [all_flows |-> DictPut(g.all_flows, source_col,
                                    DictGet(g.all_flows, source_col, {}) \cup {target_col}),
              column_to_table |-> c2]

\* final_target_tables: the DML targets of the SQL text that are schema.table
\* names and not temp tables
FinalTargetTables(body) ==
    {Lower(m) : m \in {t \in body : HasDot(t) /\ ~(Contains(w_hash, Lower(t)) \/ Contains(w_temp, Lower(t)))}}

source_table_patterns == <<w_staging, w_ref, w_source, w_raw, w_input, w_external>>

\* source_tables of the trace
TraceSourceTables(column_to_table) ==
    {table \in DictValues(column_to_table) :
        /\ AnyContains(source_table_patterns, table)
        /\ ~(Contains(w_hash, table) \/ Contains(w_temp, table))}

\* what the nested path search closes over; order gives, for each key of
\* all_flows, the order in which its set of successors is iterated
TraceContext(mappings, body, order) ==
    LET g == BuildFlowGraph(mappings)
    IN  [all_flows |-> g.all_flows, column_to_table |-> g.column_to_table,
         final_target_tables |-> FinalTargetTables(body),
         source_tables |-> TraceSourceTables(g.column_to_table),
         order |-> order]

\* the successors of col in iteration order: all_flows.get(col, [])
Successors(cx, col) == IF DictHas(cx.all_flows, col) THEN cx.order[col] ELSE <<>>

InFinalTable(cx, col) ==
    /\ DictHas(cx.column_to_table, col)
    /\ cx.column_to_table.val[col] \in cx.final_target_tables

RECURSIVE find_all_paths_to_finals(_, _, _, _)
find_all_paths_to_finals(cx, start_col, visited, path) ==
    IF start_col \in visited THEN <<>>
    ELSE LET current_path == Append(path, start_col)
             succ == Successors(cx, start_col)
         IN  IF InFinalTable(cx, start_col) THEN <<current_path>>
             ELSE Flatten([i \in DOMAIN succ |->
                     find_all_paths_to_finals(cx, succ[i], visited \cup {start_col}, current_path)])

IsSourceColumn(cx, col) ==
    /\ DictHas(cx.column_to_table, col)
    /\ cx.column_to_table.val[col] \in cx.source_tables

EndToEndMapping(source_full, target_full, path, type) ==
    [source_table |-> TablePart(source_full), source_column |-> ColumnPart(source_full),
     target_table |-> TablePart(target_full), target_column |-> ColumnPart(target_full),
     path_length |-> Len(path) - 1, transformation_type |-> type,
     full_path |-> path, intermediate_count |-> Len(path) - 2]

\* the main pass: one mapping per path from a source column to a final table
MainPass(cx) ==
    LET keys == cx.all_flows.keys
        OfPath(path) ==
            IF /\ Len(path) >= 2
               /\ HasDot(path[1]) /\ HasDot(path[Len(path)])
               /\ TablePart(path[Len(path)]) \in cx.final_target_tables
            THEN <<EndToEndMapping(path[1], path[Len(path)], path, "end-to-end")>>
            ELSE <<>>
        OfSource(source_col) ==
            IF IsSourceColumn(cx, source_col)
            THEN LET paths == find_all_paths_to_finals(cx, source_col, {}, <<>>)
                 IN  Flatten([j \in DOMAIN paths |-> OfPath(paths[j])])
            ELSE <<>>
    IN  Flatten([i \in DOMAIN keys |-> OfSource(keys[i])])

\* the paths the main pass got from the path search
MainPassPaths(cx) ==
    LET keys == cx.all_flows.keys
    IN  Flatten([i \in DOMAIN keys |->
            IF IsSourceColumn(cx, keys[i])
            THEN find_all_paths_to_finals(cx, keys[i], {}, <<>>)
            ELSE <<>>])

SimilarNames(a, b) == a = b \/ Contains(a, b) \/ Contains(b, a)

\* the 'pattern-matched' pass, run when the main pass found nothing
PatternPass(cx) ==
    LET keys == cx.all_flows.keys
        cols == cx.column_to_table.keys
        OfPair(source_col, target_col) ==
            IF /\ cx.column_to_table.val[target_col] \in cx.final_target_tables
               /\ SimilarNames(ColumnPart(source_col), ColumnPart(target_col))
            THEN LET paths == find_all_paths_to_finals(cx, source_col, {}, <<>>)
                     hits == {j \in DOMAIN paths : target_col \in Range(paths[j])}
                 IN  IF hits # {} /\ HasDot(source_col) /\ HasDot(target_col)
                     THEN LET j == CHOOSE h \in hits : \A k \in hits : h <= k
                          IN  <<EndToEndMapping(source_col, target_col, paths[j], "pattern-matched")>>
                     ELSE <<>>
            ELSE <<>>
        OfSource(source_col) ==
            IF IsSourceColumn(cx, source_col)
            THEN Flatten([j \in DOMAIN cols |-> OfPair(source_col, cols[j])])
            ELSE <<>>
    IN  Flatten([i \in DOMAIN keys |-> OfSource(keys[i])])

\* the paths the 'pattern-matched' pass got from the path search
PatternPassPaths(cx) ==
    LET keys == cx.all_flows.keys
        cols == cx.column_to_table.keys
        OfPair(source_col, target_col) ==
            IF /\ cx.column_to_table.val[target_col] \in cx.final_target_tables
               /\ SimilarNames(ColumnPart(source_col), ColumnPart(target_col))
            THEN find_all_paths_to_finals(cx, source_col, {}, <<>>)
            ELSE <<>>
    IN  Flatten([i \in DOMAIN keys |->
            IF IsSourceColumn(cx, keys[i])
            THEN Flatten([j \in DOMAIN cols |-> OfPair(keys[i], cols[j])])
            ELSE <<>>])

\* the paths find_all_paths_to_finals returned in one run of the trace
ReturnedPaths(cx) ==
    MainPassPaths(cx) \o (IF Len(MainPass(cx)) = 0 THEN PatternPassPaths(cx) ELSE <<>>)

MappingKey(m) == <<m.source_table, m.source_column, m.target_table, m.target_column>>

\* keeps, of the mappings with the same key, the first one
RemoveDuplicates(mappings) ==
    Pick(mappings, {i \in DOMAIN mappings :
                      \A j \in 1..(i - 1) : MappingKey(mappings[j]) # MappingKey(mappings[i])})

\* end_to_end_mappings as it is when the de-duplication starts
FoundMappings(cx) ==
    LET main == MainPass(cx)
    IN  IF Len(main) = 0 THEN PatternPass(cx) ELSE main

_trace_end_to_end_lineage(cx) == RemoveDuplicates(FoundMappings(cx))

ReportKey(m) == <<m.target_table, m.source_table, m.source_column>>

\* a < b, for tuples of strings
KeyLess(a, b) ==
    \E i \in DOMAIN a :
        /\ \A j \in 1..(i - 1) : a[j] = b[j]
        /\ StrLess(a[i], b[i])

\* sorted(mappings, key=ReportKey): a stable sort
SortedMappings(mappings) ==
    LET Before(i, j) ==
            \/ KeyLess(ReportKey(mappings[i]), ReportKey(mappings[j]))
            \/ (~KeyLess(ReportKey(mappings[j]), ReportKey(mappings[i])) /\ i < j)
        Pos(i) == 1 + Cardinality({j \in DOMAIN mappings : Before(j, i)})
    IN  [n \in DOMAIN mappings |-> mappings[CHOOSE i \in DOMAIN mappings : Pos(i) = n]]

\* the tables sqllineage names for the statement of a column-lineage tuple
StatementTables(mapping) == {TablePart(mapping[k]) : k \in {n \in 1..2 : mapping[n] # None}}

\* the keys of self.source_tables, self.target_tables or
\* self.intermediate_tables (category says which) after the tables of one
\* statement are categorized
CategorizedTables(tables, category, mapping) ==
    tables \cup {table_name \in StatementTables(mapping) : _categorize_table(table_name) = category}

\* _extract_table_references: the names after FROM and JOIN are the tables the
\* recorded tuples read, the names after INSERT and UPDATE are those of the
\* SQL text, the names before AS in a WITH clause are the unqualified ones
TableReferences(mappings, body) ==
    LET read == {Lower(TablePart(mappings[k].source_column)) :
                    k \in {n \in DOMAIN mappings : HasDot(mappings[n].source_column)}}
    IN  [from_tables |-> read,
         insert_tables |-> {Lower(t) : t \in body},
         with_tables |-> {t \in read : ~HasDot(t) /\ ~StartsWith(t, w_hash)}]

\* the keys of the three table dicts after _refine_table_categorization
_refine_table_categorization(tables, mappings, body) ==
    LET table_refs == TableReferences(mappings, body)
    IN  [source |-> tables.source \cup
                      {t \in table_refs.from_tables :
                          t \notin table_refs.insert_tables /\ ~StartsWith(t, w_hash)},
         target |-> tables.target \cup
                      {t \in table_refs.insert_tables :
                          ~StartsWith(t, w_hash) /\ ~Contains(w_temp, Lower(t))},
         intermediate |-> tables.intermediate \cup table_refs.with_tables]

\* _analyze_statements: one column-lineage tuple of one statement is recorded
\* and the tables of the statement are categorized
AnalyzeStatement(i) ==
    /\ script \in {"generic", "hybrid"} /\ pc = "analyze"
    /\ Len(column_mappings) < MaxMappings
    /\ column_mappings # <<>> => column_mappings[Len(column_mappings)].statement_num < i
    /\ column_mappings' = Append(column_mappings, ColumnMapping(LineageTuples[i], i))
    /\ source_tables' = CategorizedTables(source_tables, "source", LineageTuples[i])
    /\ target_tables' = CategorizedTables(target_tables, "target", LineageTuples[i])
    /\ intermediate_tables' = CategorizedTables(intermediate_tables, "intermediate", LineageTuples[i])
    /\ UNCHANGED <<script, pc, procedure_body, all_mappings, end_to_end_mappings, sorted_mappings>>
    /\ UNCHANGED <<graphVars, resultVars>>
    /\ UNCHANGED <<schema, column_flows, table_column_map, column_table_map>>
    /\ UNCHANGED <<dml_statements, csharp_metadata, table_categories, frames>>

\* step 3 of analyze, which a later run of the trace alone does not repeat
RefineTableCategorization ==
    LET refined == IF pc = "analyze"
                   THEN _refine_table_categorization(
                            [source |-> source_tables, target |-> target_tables,
                             intermediate |-> intermediate_tables],
                            column_mappings, procedure_body)
                   ELSE [source |-> source_tables, target |-> target_tables,
                         intermediate |-> intermediate_tables]
    IN  /\ source_tables' = refined.source
        /\ target_tables' = refined.target
        /\ intermediate_tables' = refined.intermediate

\* analyze after its statement loop: _refine_table_categorization and
\* _trace_end_to_end_lineage; or a later run of the trace over the same input
TraceEndToEndLineage ==
    /\ script = "generic" /\ pc \in {"analyze", "reported"}
    /\ \E order \in IterationOrders(BuildFlowGraph(column_mappings).all_flows) :
         LET cx == TraceContext(column_mappings, procedure_body, order)
         IN  /\ end_to_end_mappings' = _trace_end_to_end_lineage(cx)
             /\ all_mappings' = FoundMappings(cx)
             /\ found_paths' = ReturnedPaths(cx)
    /\ RefineTableCategorization
    /\ pc' = "traced"
    /\ UNCHANGED <<script, procedure_body, column_mappings, sorted_mappings>>
    /\ UNCHANGED <<graphVars, calls, query, found_columns, lineages>>
    /\ UNCHANGED <<schema, column_flows, table_column_map, column_table_map>>
    /\ UNCHANGED <<dml_statements, csharp_metadata, table_categories, frames>>

\* generate_report: the end-to-end table is printed in sorted order
GenerateReport ==
    /\ script = "generic" /\ pc = "traced"
    /\ sorted_mappings' = [printed |-> TRUE, rows |-> SortedMappings(end_to_end_mappings)]
    /\ pc' = "reported"
    /\ UNCHANGED <<script, procedure_body, column_mappings, all_mappings, end_to_end_mappings>>
    /\ UNCHANGED <<graphVars, resultVars>>
    /\ UNCHANGED extVars

(***************************************************************************)
(* The C# metadata the metadata scripts load                                *)
(***************************************************************************)
Lineage(st, sc, tt, tc) ==
    [source_table |-> st, source_column |-> sc, target_table |-> tt, target_column |-> tc]

\* The metadata files: lineage record n of a file is either record n of this
\* list or absent
LineageRecords ==
    << Lineage(t_staging_t, w_id, t_raw, w_rid), Lineage(t_raw, w_rid, t_core_work, w_id),
       Lineage(t_core_work, w_id, t_core_fin, w_id), Lineage(t_core_work, w_id, t_raw, w_rid),
       Lineage(t_staging_t, w_id, t_core_fin, w_id), Lineage(t_raw, w_rid, t_raw, w_rid),
       Lineage(t_raw, w_rid, t_core_fin, w_id), Lineage(t_core_work, w_id, t_core_fin, None) >>

\* the columns the metadata can name
MetadataColumns == {c_staging_t_id, c_raw_rid, c_core_work_id, c_core_fin_id}

\* the C# tool lists a lineage under temp_involved when one of its tables is a
\* temp table, and under real_to_real otherwise
InvolvesTemp(lineage) ==
    StartsWith(lineage.source_table, w_hash) \/ StartsWith(lineage.target_table, w_hash)

(***************************************************************************)
(* lineage_analyzer.py                                                     *)
(***************************************************************************)
DefaultMaxDepth == 15

SourceOf(lineage) == Dot(lineage.source_table, lineage.source_column)

TargetOf(lineage) == Dot(lineage.target_table, lineage.target_column)

\* lineage.get(k) is true for each of the four keys
Complete(lineage) ==
    /\ lineage.source_table # None /\ lineage.source_column # None
    /\ lineage.target_table # None /\ lineage.target_column # None

\* lineage[k] raises KeyError for one of the four keys
RaisesKeyError(lins) == \E i \in DOMAIN lins : ~Complete(lins[i])

\* the records a loop is through with when lineage[k] raises KeyError, or
\* all of them
BeforeKeyError(lins) ==
    SubSeq(lins, 1, Cardinality({i \in DOMAIN lins : \A j \in 1..i : Complete(lins[j])}))

RECURSIVE AddLineagesForwardOnly(_, _)
\* the loop of _build_lineage_graph without the line that fills reverse_graph
AddLineagesForwardOnly(g, lins) ==
    IF lins = <<>> THEN g
    ELSE LET h == AddLineagesForwardOnly(g, Front(lins))
             source == SourceOf(lins[Len(lins)])
             target == TargetOf(lins[Len(lins)])
         IN  [forward_graph |-> DictPut(h.forward_graph, source,
                                        DictGet(h.forward_graph, source, {}) \cup {target}),
              reverse_graph |-> h.reverse_graph,
              all_columns |-> h.all_columns \cup {source, target}]

RECURSIVE AddLineages(_, _)
\* the loop 'for lineage in lineages' over forward_graph, reverse_graph, all_columns
AddLineages(g, lins) ==
    IF lins = <<>> THEN g
    ELSE LET h == AddLineages(g, Front(lins))
             source == SourceOf(lins[Len(lins)])
             target == TargetOf(lins[Len(lins)])
         IN  [forward_graph |-> DictPut(h.forward_graph, source,
                                        DictGet(h.forward_graph, source, {}) \cup {target}),
              reverse_graph |-> DictPut(h.reverse_graph, target,
                                        DictGet(h.reverse_graph, target, {}) \cup {source}),
              all_columns |-> h.all_columns \cup {source, target}]

_build_lineage_graph(g, md) ==
    AddLineages(g, BeforeKeyError(md.real_to_real \o SelectSeq(md.temp_involved, Complete)))

EmptyGraph == [forward_graph |-> EmptyDict, reverse_graph |-> EmptyDict, all_columns |-> {}]

RECURSIVE find_ultimate(_, _, _)
\* find_ultimate_sources over graph = reverse_graph and find_ultimate_targets
\* over graph = forward_graph: the two bodies differ in the graph only
find_ultimate(graph, column, visited) ==
    IF column \in visited THEN {}
    ELSE IF ~DictHas(graph, column) THEN {column}
    ELSE UNION {find_ultimate(graph, next, visited \cup {column}) : next \in graph.val[column]}

\* the iteration of find_paths without the test 'if next_col in path'
FindPathsIterationRevisiting(graph, order, target, max_depth, st) ==
    LET current == Head(st.queue)[1]
        path == Head(st.queue)[2]
        rest == Tail(st.queue)
    IN  IF Len(path) > max_depth \/ ~DictHas(graph, current)
        THEN [queue |-> rest, paths |-> st.paths]
        ELSE LET hits == SelectSeq(order[current], LAMBDA next_col : next_col = target)
                 more == SelectSeq(order[current], LAMBDA next_col : next_col # target)
             IN  [queue |-> rest \o [i \in DOMAIN more |-> <<more[i], Append(path, more[i])>>],
                  paths |-> st.paths \o [i \in DOMAIN hits |-> Append(path, hits[i])]]

\* the iteration of find_paths with 'continue' taken before the entry is
\* removed from the queue
FindPathsIterationStuck(graph, order, target, max_depth, st) ==
    LET current == Head(st.queue)[1]
        path == Head(st.queue)[2]
        rest == Tail(st.queue)
    IN  IF Len(path) > max_depth
        THEN st
        ELSE IF ~DictHas(graph, current)
        THEN [queue |-> rest, paths |-> st.paths]
        ELSE LET fresh == SelectSeq(order[current], LAMBDA next_col : next_col \notin Range(path))
                 hits == SelectSeq(fresh, LAMBDA next_col : next_col = target)
                 more == SelectSeq(fresh, LAMBDA next_col : next_col # target)
             IN  [queue |-> rest \o [i \in DOMAIN more |-> <<more[i], Append(path, more[i])>>],
                  paths |-> st.paths \o [i \in DOMAIN hits |-> Append(path, hits[i])]]

\* one iteration of the loop 'while queue' of find_paths; order gives the
\* order in which each set of forward_graph is iterated
FindPathsIteration(graph, order, target, max_depth, st) ==
    LET current == Head(st.queue)[1]
        path == Head(st.queue)[2]
        rest == Tail(st.queue)
    IN  IF Len(path) > max_depth \/ ~DictHas(graph, current)
        THEN [queue |-> rest, paths |-> st.paths]
        ELSE LET fresh == SelectSeq(order[current], LAMBDA next_col : next_col \notin Range(path))
                 hits == SelectSeq(fresh, LAMBDA next_col : next_col = target)
                 more == SelectSeq(fresh, LAMBDA next_col : next_col # target)
             IN  [queue |-> rest \o [i \in DOMAIN more |-> <<more[i], Append(path, more[i])>>],
                  paths |-> st.paths \o [i \in DOMAIN hits |-> Append(path, hits[i])]]

RECURSIVE FindPathsLoop(_, _, _, _, _)
FindPathsLoop(graph, order, target, max_depth, st) ==
    IF st.queue = <<>> THEN st.paths
    ELSE FindPathsLoop(graph, order, target, max_depth,
                       FindPathsIteration(graph, order, target, max_depth, st))

find_paths(graph, order, source, target, max_depth) ==
    IF source = target THEN <<<<source>>>>
    ELSE FindPathsLoop(graph, order, target, max_depth,
                       [queue |-> <<<<source, <<source>>>>>>, paths |-> <<>>])

\* min(paths, key=len): the first of the shortest paths
ShortestPath(paths) ==
    paths[CHOOSE i \in DOMAIN paths :
            /\ \A j \in DOMAIN paths : Len(paths[i]) <= Len(paths[j])
            /\ \A j \in 1..(i - 1) : Len(paths[j]) > Len(paths[i])]

\* the lineage dicts of generate_end_to_end_lineages, without the print-outs
generate_end_to_end_lineages(fg, rg, columns, order) ==
    LET ultimate_sources == {c \in columns : ~DictHas(rg, c)}
        ultimate_targets == {c \in columns : ~DictHas(fg, c)}
        Paths(source, target) == find_paths(fg, order, source, target, DefaultMaxDepth)
    IN  { [source |-> pair[1], target |-> pair[2],
           is_direct |-> Len(ShortestPath(Paths(pair[1], pair[2]))) = 2,
           shortest_path |-> ShortestPath(Paths(pair[1], pair[2])),
           path_length |-> Len(ShortestPath(Paths(pair[1], pair[2]))) - 1,
           path_count |-> Len(Paths(pair[1], pair[2]))] :
          pair \in {pr \in ultimate_sources \X ultimate_targets : Paths(pr[1], pr[2]) # <<>>} }

\* the C# tool writes lineage record i to the metadata file
EmitLineage(i) ==
    /\ script \in {"analyzer", "tracer"} /\ pc = "metadata"
    /\ Len(metadata.real_to_real) + Len(metadata.temp_involved) < MaxRecords
    /\ \A j \in DOMAIN LineageRecords :
         (LineageRecords[j] \in Range(metadata.real_to_real) \cup Range(metadata.temp_involved)) => j < i
    /\ metadata' =
         LET lineage == LineageRecords[i]
             listed == IF InvolvesTemp(lineage)
                       THEN [metadata EXCEPT !.temp_involved = Append(@, lineage)]
                       ELSE [metadata EXCEPT !.real_to_real = Append(@, lineage)]
         IN  [listed EXCEPT
                !.source_tables = @ \cup {t \in {lineage.source_table} : ~StartsWith(t, w_hash)},
                !.target_tables = @ \cup {t \in {lineage.target_table} : ~StartsWith(t, w_hash)}]
    /\ UNCHANGED <<script, pc, parserVars, resultVars>>
    /\ UNCHANGED <<forward_graph, reverse_graph, all_columns, lineage_graph, column_metadata>>
    /\ UNCHANGED extVars

RECURSIVE AfterLookups(_, _)
\* a defaultdict(set) after the lookups d[k] for the keys ks: a lookup of a
\* missing key creates it
AfterLookups(d, ks) ==
    IF ks = {} THEN d
    ELSE LET k == CHOOSE x \in ks : TRUE
         IN  AfterLookups(IF DictHas(d, k) THEN d ELSE DictPut(d, k, {}), ks \ {k})

\* the lookups graph[column] without the test 'column in graph' before them
IndexedUntested(graph, tested) == tested

\* the columns a traversal looks up in graph, of the columns it comes to: the
\* lookup graph[column] is made only where 'column in graph' holds
Indexed(graph, tested) == {column \in tested : DictHas(graph, column)}

RECURSIVE FindUltimateTested(_, _, _)
\* the columns find_ultimate_sources or find_ultimate_targets comes to
FindUltimateTested(graph, column, visited) ==
    IF column \in visited THEN {}
    ELSE IF ~DictHas(graph, column) THEN {column}
    ELSE {column} \cup UNION {FindUltimateTested(graph, next, visited \cup {column}) :
                                next \in graph.val[column]}

RECURSIVE FindPathsTested(_, _, _, _)
\* the columns find_paths takes from its queue with a path within max_depth
FindPathsTested(graph, path, target, max_depth) ==
    LET current == path[Len(path)]
    IN  IF Len(path) > max_depth THEN {}
        ELSE {current} \cup
             UNION {FindPathsTested(graph, Append(path, next_col), target, max_depth) :
                      next_col \in {c \in DictGet(graph, current, {}) :
                                       c \notin Range(path) /\ c # target}}

\* the columns the calls of find_paths in generate_end_to_end_lineages come to
GenerateTested(fg, rg, columns) ==
    UNION {FindPathsTested(fg, <<pair[1]>>, pair[2], DefaultMaxDepth) :
             pair \in {pr \in {c \in columns : ~DictHas(rg, c)} \X {c \in columns : ~DictHas(fg, c)} :
                         pr[1] # pr[2]}}

\* LineageAnalyzer.__init__
LineageAnalyzerInit ==
    /\ script = "analyzer" /\ pc = "metadata"
    /\ LET g == _build_lineage_graph(EmptyGraph, metadata)
       IN  /\ forward_graph' = g.forward_graph
           /\ reverse_graph' = g.reverse_graph
           /\ all_columns' = g.all_columns
    /\ pc' = IF RaisesKeyError(metadata.real_to_real) THEN "aborted" ELSE "ready"
    /\ UNCHANGED <<script, parserVars, resultVars, metadata, lineage_graph, column_metadata>>
    /\ UNCHANGED extVars

FindPaths(source, target, max_depth) ==
    /\ script = "analyzer" /\ pc = "ready"
    /\ calls < MaxCalls /\ calls' = calls + 1
    /\ \E order \in IterationOrders(forward_graph) :
         found_paths' = find_paths(forward_graph, order, source, target, max_depth)
    /\ forward_graph' =
         AfterLookups(forward_graph,
                      Indexed(forward_graph,
                              IF source = target THEN {}
                              ELSE FindPathsTested(forward_graph, <<source>>, target, max_depth)))
    /\ query' = [source |-> source, target |-> target, max_depth |-> max_depth]
    /\ found_columns' = {} /\ lineages' = {}
    /\ UNCHANGED <<script, pc, parserVars>>
    /\ UNCHANGED <<metadata, reverse_graph, all_columns, lineage_graph, column_metadata>>
    /\ UNCHANGED extVars

FindUltimateSources(column) ==
    /\ script = "analyzer" /\ pc = "ready"
    /\ calls < MaxCalls /\ calls' = calls + 1
    /\ found_columns' = find_ultimate(reverse_graph, column, {})
    /\ reverse_graph' =
         AfterLookups(reverse_graph,
                      Indexed(reverse_graph, FindUltimateTested(reverse_graph, column, {})))
    /\ query' = [NoQuery EXCEPT !.target = column]
    /\ found_paths' = <<>> /\ lineages' = {}
    /\ UNCHANGED <<script, pc, parserVars>>
    /\ UNCHANGED <<metadata, forward_graph, all_columns, lineage_graph, column_metadata>>
    /\ UNCHANGED extVars

FindUltimateTargets(column) ==
    /\ script = "analyzer" /\ pc = "ready"
    /\ calls < MaxCalls /\ calls' = calls + 1
    /\ found_columns' = find_ultimate(forward_graph, column, {})
    /\ forward_graph' =
         AfterLookups(forward_graph,
                      Indexed(forward_graph, FindUltimateTested(forward_graph, column, {})))
    /\ query' = [NoQuery EXCEPT !.source = column]
    /\ found_paths' = <<>> /\ lineages' = {}
    /\ UNCHANGED <<script, pc, parserVars>>
    /\ UNCHANGED <<metadata, reverse_graph, all_columns, lineage_graph, column_metadata>>
    /\ UNCHANGED extVars

GenerateEndToEndLineages ==
    /\ script = "analyzer" /\ pc = "ready"
    /\ calls < MaxCalls /\ calls' = calls + 1
    /\ \E order \in IterationOrders(forward_graph) :
         lineages' = generate_end_to_end_lineages(forward_graph, reverse_graph, all_columns, order)
    /\ forward_graph' =
         AfterLookups(forward_graph,
                      Indexed(forward_graph,
                              GenerateTested(forward_graph, reverse_graph, all_columns)))
    /\ query' = NoQuery /\ found_paths' = <<>> /\ found_columns' = {}
    /\ UNCHANGED <<script, pc, parserVars>>
    /\ UNCHANGED <<metadata, reverse_graph, all_columns, lineage_graph, column_metadata>>
    /\ UNCHANGED extVars

(***************************************************************************)
(* end_to_end_lineage_tracer.py                                            *)
(***************************************************************************)
TracerDefaultMaxDepth == 10

\* source_tables.real_tables and target_tables.real_tables of the metadata
_get_real_tables(md) == md.source_tables \cup md.target_tables

ListAppend(d, k, v) == DictPut(d, k, Append(DictGet(d, k, <<>>), v))

ColumnMetadata(table, column, type) == [table |-> table, column |-> column, type |-> type]

RECURSIVE AddRealLineages(_, _)
\* the loop over real_to_real of build_lineage_graph
AddRealLineages(g, lins) ==
    IF lins = <<>> THEN g
    ELSE LET h == AddRealLineages(g, Front(lins))
             lineage == lins[Len(lins)]
             source == SourceOf(lineage)
             target == TargetOf(lineage)
             m1 == DictPut(h.column_metadata, source,
                           ColumnMetadata(lineage.source_table, lineage.source_column, "real_source"))
         IN  [lineage_graph |-> ListAppend(h.lineage_graph, source, target),
              reverse_graph |-> ListAppend(h.reverse_graph, target, source),
              column_metadata |-> DictPut(m1, target,
                           ColumnMetadata(lineage.target_table, lineage.target_column, "real_target"))]

RECURSIVE AddTempLineages(_, _, _)
\* the loop over temp_involved of build_lineage_graph
AddTempLineages(g, lins, real_tables) ==
    IF lins = <<>> THEN g
    ELSE LET h == AddTempLineages(g, Front(lins), real_tables)
             lineage == lins[Len(lins)]
             source == SourceOf(lineage)
             target == TargetOf(lineage)
             m1 == DictPut(h.column_metadata, source,
                           ColumnMetadata(lineage.source_table, lineage.source_column,
                               IF lineage.source_table \in real_tables
                               THEN "real_source" ELSE "temp_source"))
         IN  [lineage_graph |-> ListAppend(h.lineage_graph, source, target),
              reverse_graph |-> ListAppend(h.reverse_graph, target, source),
              column_metadata |-> DictPut(m1, target,
                           ColumnMetadata(lineage.target_table, lineage.target_column,
                               IF lineage.target_table \in real_tables
                               THEN "real_target" ELSE "temp_target"))]

build_lineage_graph(g, md) ==
    IF RaisesKeyError(md.real_to_real)
    THEN AddRealLineages(g, BeforeKeyError(md.real_to_real))
    ELSE AddTempLineages(AddRealLineages(g, md.real_to_real), BeforeKeyError(md.temp_involved),
                         _get_real_tables(md))

EmptyTracerGraph ==
    [lineage_graph |-> EmptyDict, reverse_graph |-> EmptyDict, column_metadata |-> EmptyDict]

\* the iteration of trace_end_to_end_path without the test 'if depth >= max_depth'
TraceIterationUnbounded(graph, target_column, max_depth, st) ==
    LET current_column == Head(st.queue)[1]
        path == Head(st.queue)[2]
        depth == Head(st.queue)[3]
        rest == Tail(st.queue)
        next_columns == DictGet(graph, current_column, <<>>)
        fresh == {i \in DOMAIN next_columns :
                    /\ next_columns[i] \notin st.visited
                    /\ \A j \in 1..(i - 1) : next_columns[j] # next_columns[i]}
        enqueued == Pick(next_columns, fresh)
    IN  IF target_column \in Range(next_columns)
        THEN [st EXCEPT !.returned = TRUE, !.path = Append(path, target_column)]
        ELSE [st EXCEPT !.queue = rest \o [i \in DOMAIN enqueued |->
                                    <<enqueued[i], Append(path, enqueued[i]), depth + 1>>],
                        !.visited = @ \cup Range(enqueued)]

\* one iteration of the loop 'while queue' of trace_end_to_end_path
TraceIteration(graph, target_column, max_depth, st) ==
    LET current_column == Head(st.queue)[1]
        path == Head(st.queue)[2]
        depth == Head(st.queue)[3]
        rest == Tail(st.queue)
        next_columns == DictGet(graph, current_column, <<>>)
        \* the entries the inner loop enqueues if it runs to its end
        fresh == {i \in DOMAIN next_columns :
                    /\ next_columns[i] \notin st.visited
                    /\ \A j \in 1..(i - 1) : next_columns[j] # next_columns[i]}
        enqueued == Pick(next_columns, fresh)
    IN  IF depth >= max_depth
        THEN [st EXCEPT !.queue = rest]
        ELSE IF target_column \in Range(next_columns)
        THEN [st EXCEPT !.returned = TRUE, !.path = Append(path, target_column)]
        ELSE [st EXCEPT !.queue = rest \o [i \in DOMAIN enqueued |->
                                    <<enqueued[i], Append(path, enqueued[i]), depth + 1>>],
                        !.visited = @ \cup Range(enqueued)]

RECURSIVE TraceLoop(_, _, _, _)
\* the path, or None when the queue runs empty
TraceLoop(graph, target_column, max_depth, st) ==
    IF st.returned THEN st.path
    ELSE IF st.queue = <<>> THEN None
    ELSE TraceLoop(graph, target_column, max_depth,
                   TraceIteration(graph, target_column, max_depth, st))

trace_end_to_end_path(graph, source_column, target_column, max_depth) ==
    IF source_column = target_column THEN <<source_column>>
    ELSE TraceLoop(graph, target_column, max_depth,
                   [queue |-> <<<<source_column, <<source_column>>, 0>>>>,
                    visited |-> {source_column}, returned |-> FALSE, path |-> None])

\* the columns of staging tables, in the order of column_metadata
find_staging_sources(cmd) ==
    SelectSeq(cmd.keys, LAMBDA column : StartsWith(Lower(cmd.val[column].table), w_staging \o <<".">>))

\* the columns of final target tables, in the order of column_metadata
find_final_targets(cmd) ==
    SelectSeq(cmd.keys, LAMBDA column :
        /\ cmd.val[column].type = "real_target"
        /\ ~StartsWith(Lower(cmd.val[column].table), w_staging \o <<".">>)
        /\ ~StartsWith(cmd.val[column].table, w_hash))

\* EndToEndLineageTracer.build_lineage_graph
BuildLineageGraph ==
    /\ script = "tracer" /\ pc = "metadata"
    /\ LET g == build_lineage_graph(
                  [lineage_graph |-> lineage_graph, reverse_graph |-> reverse_graph,
                   column_metadata |-> column_metadata], metadata)
       IN  /\ lineage_graph' = g.lineage_graph
           /\ reverse_graph' = g.reverse_graph
           /\ column_metadata' = g.column_metadata
    /\ pc' = IF RaisesKeyError(metadata.real_to_real \o metadata.temp_involved)
             THEN "aborted" ELSE "ready"
    /\ UNCHANGED <<script, parserVars, resultVars, metadata, forward_graph, all_columns>>
    /\ UNCHANGED extVars

\* EndToEndLineageTracer.trace_end_to_end_path; found_paths holds the path
\* returned, and is empty when None was returned
TraceEndToEndPath(source_column, target_column, max_depth) ==
    /\ script = "tracer" /\ pc = "ready"
    /\ calls < MaxCalls /\ calls' = calls + 1
    /\ LET path == trace_end_to_end_path(lineage_graph, source_column, target_column, max_depth)
       IN  found_paths' = IF path = None THEN <<>> ELSE <<path>>
    /\ query' = [source |-> source_column, target |-> target_column, max_depth |-> max_depth]
    /\ found_columns' = {} /\ lineages' = {}
    /\ UNCHANGED <<script, pc, parserVars, graphVars>>
    /\ UNCHANGED extVars

\* itertools.product(a, b) as a list
Product(a, b) ==
    [i \in 1..(Len(a) * Len(b)) |-> <<a[((i - 1) \div Len(b)) + 1], b[((i - 1) % Len(b)) + 1]>>]

Min(a, b) == IF a <= b THEN a ELSE b

\* EndToEndLineageTracer.find_sample_paths
find_sample_paths(g, max_samples) ==
    LET staging_sources == find_staging_sources(g.column_metadata)
        final_targets == find_final_targets(g.column_metadata)
        max_attempts == Min(50, Len(staging_sources) * Len(final_targets))
        tried == SubSeq(Product(staging_sources, final_targets), 1, max_attempts)
        PathOf(pair) == trace_end_to_end_path(g.lineage_graph, pair[1], pair[2], 15)
        found == SelectSeq(tried, LAMBDA pair : PathOf(pair) # None /\ Len(PathOf(pair)) > 1)
    IN  [i \in 1..Min(max_samples, Len(found)) |->
            [source |-> found[i][1], target |-> found[i][2], path |-> PathOf(found[i]),
             length |-> Len(PathOf(found[i]))]]

\* the statements that follow the loop of display_sample_paths, under the
\* docstring 'Find all complete end-to-end lineages ...'
all_end_to_end_lineages(g) ==
    LET pairs == Product(find_staging_sources(g.column_metadata), find_final_targets(g.column_metadata))
        PathOf(pair) == trace_end_to_end_path(g.lineage_graph, pair[1], pair[2], TracerDefaultMaxDepth)
        found == SelectSeq(pairs, LAMBDA pair : PathOf(pair) # None /\ Len(PathOf(pair)) > 1)
    IN  [i \in DOMAIN found |->
            [source_column |-> found[i][1], target_column |-> found[i][2],
             source_table |-> g.column_metadata.val[found[i][1]].table,
             target_table |-> g.column_metadata.val[found[i][2]].table,
             path |-> PathOf(found[i]), steps |-> Len(PathOf(found[i])) - 1]]

\* EndToEndLineageTracer.display_sample_paths: what it returns
display_sample_paths(g, sample_paths) ==
    IF sample_paths = <<>> THEN None ELSE all_end_to_end_lineages(g)

\* the methods the class EndToEndLineageTracer defines
TracerMethods ==
    {"__init__", "build_lineage_graph", "_get_real_tables", "find_staging_sources",
     "find_final_targets", "trace_end_to_end_path", "find_sample_paths",
     "display_sample_paths", "display_end_to_end_lineages", "display_diagnostic_info",
     "run_analysis"}

\* EndToEndLineageTracer.run_analysis on a tracer just constructed; pc is
\* "aborted" when build_lineage_graph raised KeyError, "raised" when the
\* call of a method the class does not define raised AttributeError, and
\* "analysed" when run_analysis returned; end_to_end_mappings holds the
\* list returned and found_paths the sample paths
RunAnalysis ==
    /\ script = "tracer" /\ pc = "metadata"
    /\ LET g == build_lineage_graph(
                  [lineage_graph |-> lineage_graph, reverse_graph |-> reverse_graph,
                   column_metadata |-> column_metadata], metadata)
           raised == RaisesKeyError(metadata.real_to_real \o metadata.temp_involved)
           sample_paths == find_sample_paths(g, 10)
       IN  /\ lineage_graph' = g.lineage_graph
           /\ reverse_graph' = g.reverse_graph
           /\ column_metadata' = g.column_metadata
           /\ found_paths' = IF raised THEN found_paths
                             ELSE [i \in DOMAIN sample_paths |-> sample_paths[i].path]
           /\ IF raised
              THEN pc' = "aborted" /\ UNCHANGED end_to_end_mappings
              ELSE IF "find_all_end_to_end_lineages" \in TracerMethods
              THEN pc' = "analysed" /\ end_to_end_mappings' = all_end_to_end_lineages(g)
              ELSE pc' = "raised" /\ UNCHANGED end_to_end_mappings
    /\ UNCHANGED <<script, procedure_body, column_mappings, all_mappings, sorted_mappings>>
    /\ UNCHANGED <<calls, query, found_columns, lineages>>
    /\ UNCHANGED <<metadata, forward_graph, all_columns>>
    /\ UNCHANGED extVars

\* EndToEndLineageTracer.find_staging_sources
FindStagingSources ==
    /\ script = "tracer" /\ pc = "ready"
    /\ calls < MaxCalls /\ calls' = calls + 1
    /\ found_paths' = <<find_staging_sources(column_metadata)>>
    /\ found_columns' = Range(find_staging_sources(column_metadata))
    /\ query' = NoQuery /\ lineages' = {}
    /\ UNCHANGED <<script, pc, parserVars, graphVars>>
    /\ UNCHANGED extVars

\* EndToEndLineageTracer.find_final_targets
FindFinalTargets ==
    /\ script = "tracer" /\ pc = "ready"
    /\ calls < MaxCalls /\ calls' = calls + 1
    /\ found_paths' = <<find_final_targets(column_metadata)>>
    /\ found_columns' = Range(find_final_targets(column_metadata))
    /\ query' = NoQuery /\ lineages' = {}
    /\ UNCHANGED <<script, pc, parserVars, graphVars>>
    /\ UNCHANGED extVars

(***************************************************************************)
(* enhanced_lineage_parser.py                                              *)
(***************************************************************************)
EnhancedDefaultMaxDepth == 5

\* the schema files: each table with the names of its columns
Schemas ==
    { EmptyDict,
      DictPut(DictPut(EmptyDict, t_staging_t, <<w_id>>), t_Core_Fin, <<w_id>>),
      DictPut(DictPut(DictPut(EmptyDict, t_ref_a, <<w_id>>), t_core_fin, <<w_id, w_rid>>),
              t_core_work, <<w_id>>) }

\* the metadata files of the enhanced script
EnhancedMetadataFiles ==
    { NoMetadata,
      [real_to_real |-> <<Lineage(t_staging_t, w_id, t_Core_Fin, w_id)>>,
       temp_involved |-> <<>>,
       source_tables |-> {t_staging_t}, target_tables |-> {t_Core_Fin}],
      [real_to_real |-> <<Lineage(t_ref_a, w_id, t_core_fin, w_id),
                          Lineage(t_ref_a, None, t_core_fin, w_id)>>,
       temp_involved |-> <<>>,
       source_tables |-> {t_ref_a, t_core_fin}, target_tables |-> {t_core_fin}] }

RECURSIVE SplitOn(_, _)
\* s.split(sep), for a separator of one character
SplitOn(s, sep) ==
    IF sep \notin Range(s) THEN <<s>>
    ELSE LET i == CHOOSE k \in DOMAIN s : s[k] = sep /\ \A m \in 1..(k - 1) : s[m] # sep
         IN  <<SubSeq(s, 1, i - 1)>> \o SplitOn(SubSeq(s, i + 1, Len(s)), sep)

RECURSIVE AddSchemaColumns(_, _, _)
\* the loop 'for column_name in columns.keys()'
AddSchemaColumns(ctm, table_key, columns) ==
    IF columns = <<>> THEN ctm
    ELSE DictPut(AddSchemaColumns(ctm, table_key, Front(columns)),
                 Dot(table_key, Lower(columns[Len(columns)])), table_key)

RECURSIVE AddSchemaTables(_, _, _)
\* the loop 'for table_name, columns in self.schema.items()', over the first n tables
AddSchemaTables(sch, n, maps) ==
    IF n = 0 THEN maps
    ELSE LET h == AddSchemaTables(sch, n - 1, maps)
             table_name == sch.keys[n]
             table_key == Lower(table_name)
             columns == sch.val[table_name]
         IN  [table_column_map |-> DictPut(h.table_column_map, table_key,
                                           [i \in DOMAIN columns |-> Lower(columns[i])]),
              column_table_map |-> AddSchemaColumns(h.column_table_map, table_key, columns)]

_build_table_column_mappings(sch, maps) == AddSchemaTables(sch, Len(sch.keys), maps)

enhanced_source_patterns == <<w_staging, w_ref, w_source, w_raw, w_input>>

enhanced_target_patterns == <<w_core, w_audit, w_ops, w_final, w_output>>

enhanced_intermediate_patterns == <<w_work, w_temp, w_hash, w_intermediate>>

_categorize_tables(md, tcm, cats) ==
    LET tables == {Lower(t) : t \in Range(tcm.keys)}
        src == {t \in tables : AnyContains(enhanced_source_patterns, t)}
        tgt == {t \in tables \ src : AnyContains(enhanced_target_patterns, t)}
        int == {t \in tables \ (src \cup tgt) : AnyContains(enhanced_intermediate_patterns, t)}
    IN  [source_tables |-> cats.source_tables \cup {Lower(t) : t \in md.source_tables} \cup src,
         target_tables |-> cats.target_tables \cup {Lower(t) : t \in md.target_tables} \cup tgt,
         intermediate_tables |-> cats.intermediate_tables \cup int]

\* self.column_table_map[col] = its table, when col has a dot
WithTable(ctm, col) == IF HasDot(col) THEN DictPut(ctm, col, TablePart(col)) ELSE ctm

RECURSIVE AddFlows(_, _)
\* the loop 'for mapping in column_lineage' of _extract_sqllineage_flows
AddFlows(st, column_lineage) ==
    IF column_lineage = <<>> THEN st
    ELSE LET h == AddFlows(st, Front(column_lineage))
             mapping == column_lineage[Len(column_lineage)]
             source_col == Lower(mapping[1])
             target_col == Lower(mapping[Len(mapping)])
         IN  IF Len(mapping) >= 2
             THEN [column_flows |-> DictPut(h.column_flows, source_col,
                                      DictGet(h.column_flows, source_col, {}) \cup {target_col}),
                   column_table_map |-> WithTable(WithTable(h.column_table_map, source_col), target_col)]
             ELSE h

RECURSIVE MergeFlows(_, _)
\* the loop 'for mapping in real_to_real' of _merge_metadata_flows
MergeFlows(st, real_to_real) ==
    IF real_to_real = <<>> THEN st
    ELSE LET h == MergeFlows(st, Front(real_to_real))
             mapping == real_to_real[Len(real_to_real)]
             source_table == Lower(mapping.source_table)
             target_table == Lower(mapping.target_table)
             source_full == Dot(source_table, Lower(mapping.source_column))
             target_full == Dot(target_table, Lower(mapping.target_column))
         IN  IF ~Complete(mapping) THEN h
             ELSE [column_flows |-> DictPut(h.column_flows, source_full,
                                      DictGet(h.column_flows, source_full, {}) \cup {target_full}),
                   column_table_map |-> DictPut(DictPut(h.column_table_map, source_full, source_table),
                                                target_full, target_table)]

_merge_metadata_flows(st, md) == MergeFlows(st, md.real_to_real)

\* what find_target_paths closes over; order gives, for each key of
\* column_flows, the order in which its set of successors is iterated
EnhancedContext(flows, ctm, targets, order) ==
    [column_flows |-> flows, column_table_map |-> ctm, target_tables |-> targets, order |-> order]

\* [start_col] + path, for each path of paths
PrefixAll(start_col, paths) == [j \in DOMAIN paths |-> <<start_col>> \o paths[j]]

RECURSIVE find_target_paths(_, _, _, _)
find_target_paths(cx, start_col, visited, max_depth) ==
    IF start_col \in visited \/ max_depth <= 0 THEN <<>>
    ELSE IF /\ DictHas(cx.column_table_map, start_col)
            /\ cx.column_table_map.val[start_col] \in cx.target_tables
    THEN <<<<start_col>>>>
    ELSE LET succ == IF DictHas(cx.column_flows, start_col) THEN cx.order[start_col] ELSE <<>>
             SubPaths(next_col) ==
                 IF next_col \in visited \cup {start_col} THEN <<>>
                 ELSE find_target_paths(cx, next_col, visited \cup {start_col}, max_depth - 1)
         IN  Flatten([i \in DOMAIN succ |-> PrefixAll(start_col, SubPaths(succ[i]))])

\* the columns the trace starts from: each column of each source table, the
\* source tables in the order src_order
SourceColumns(tcm, src_order) ==
    Flatten([i \in DOMAIN src_order |->
        LET source_columns == DictGet(tcm, src_order[i], <<>>)
        IN  [j \in DOMAIN source_columns |->
                [source_table |-> src_order[i], source_column |-> source_columns[j]]]])

\* the paths find_target_paths returns to the trace, in the order of the calls
TracedPaths(cx, tcm, src_order) ==
    LET starts == SourceColumns(tcm, src_order)
    IN  Flatten([i \in DOMAIN starts |->
            find_target_paths(cx, Dot(starts[i].source_table, starts[i].source_column),
                              {}, EnhancedDefaultMaxDepth)])

\* the 'traced' mappings
TracedMappings(cx, tcm, src_order) ==
    LET starts == SourceColumns(tcm, src_order)
        OfPath(start, path) ==
            IF Len(path) >= 2 /\ DictHas(cx.column_table_map, path[Len(path)])
            THEN <<[source_table |-> start.source_table,
                    source_column |-> start.source_column,
                    target_table |-> cx.column_table_map.val[path[Len(path)]],
                    target_column |-> ColumnPart(path[Len(path)]),
                    path_length |-> Len(path),
                    transformation_type |-> "traced"]>>
            ELSE <<>>
        OfStart(start) ==
            LET paths == find_target_paths(cx, Dot(start.source_table, start.source_column),
                                           {}, EnhancedDefaultMaxDepth)
            IN  Flatten([j \in DOMAIN paths |-> OfPath(start, paths[j])])
    IN  Flatten([i \in DOMAIN starts |-> OfStart(starts[i])])

transformations ==
    << <<w_txnexternalid, w_idempotencykey>>, <<w_accountno, w_accountid>>,
       <<w_txndate, w_postingdate>>, <<w_valuedate, w_postingdate>>,
       <<w_batchdate, w_createdat>>, <<w_amount, w_amountbase>>,
       <<w_channel, w_feeamount>> >>

_is_likely_transformation(source_col, target_col) ==
    \/ \E i \in DOMAIN transformations :
         Contains(transformations[i][1], source_col) /\ Contains(transformations[i][2], target_col)
    \/ Contains(source_col, target_col)
    \/ Contains(target_col, source_col)
    \/ Range(SplitOn(source_col, "_")) \cap Range(SplitOn(target_col, "_")) # {}

_generate_schema_based_mappings(tcm, src_order, tgt_order) ==
    LET Match(source_table, target_table, source_col, target_col) ==
            IF source_col = target_col
            THEN <<[source_table |-> source_table, source_column |-> source_col,
                    target_table |-> target_table, target_column |-> target_col,
                    path_length |-> 1, transformation_type |-> "schema_exact_match"]>>
            ELSE IF _is_likely_transformation(source_col, target_col)
            THEN <<[source_table |-> source_table, source_column |-> source_col,
                    target_table |-> target_table, target_column |-> target_col,
                    path_length |-> 1, transformation_type |-> "schema_transform_match"]>>
            ELSE <<>>
        OfTables(source_table, target_table) ==
            LET source_columns == DictGet(tcm, source_table, <<>>)
                target_columns == DictGet(tcm, target_table, <<>>)
            IN  Flatten([i \in DOMAIN source_columns |->
                    Flatten([j \in DOMAIN target_columns |->
                        Match(source_table, target_table, source_columns[i], target_columns[j])])])
    IN  Flatten([i \in DOMAIN src_order |->
            Flatten([j \in DOMAIN tgt_order |-> OfTables(src_order[i], tgt_order[j])])])

\* _deduplicate_mappings without the test 'if key not in seen'
KeepEveryMapping(mappings) == mappings

\* keeps, of the mappings with the same key, the first one
_deduplicate_mappings(mappings) ==
    Pick(mappings, {i \in DOMAIN mappings :
                      \A j \in 1..(i - 1) : MappingKey(mappings[j]) # MappingKey(mappings[i])})

\* the same with the schema-based mappings put before the traced ones
SchemaMappingsFirst(cx, tcm, src_order, tgt_order) ==
    _generate_schema_based_mappings(tcm, src_order, tgt_order) \o TracedMappings(cx, tcm, src_order)

\* all_mappings of the enhanced trace when _deduplicate_mappings is called
EnhancedAllMappings(cx, tcm, src_order, tgt_order) ==
    TracedMappings(cx, tcm, src_order) \o _generate_schema_based_mappings(tcm, src_order, tgt_order)

\* Step 1 of analyze
BuildTableColumnMappings ==
    /\ script = "enhanced" /\ pc = "load"
    /\ LET maps == _build_table_column_mappings(schema,
                     [table_column_map |-> table_column_map, column_table_map |-> column_table_map])
       IN  /\ table_column_map' = maps.table_column_map
           /\ column_table_map' = maps.column_table_map
    /\ pc' = "categorize"
    /\ UNCHANGED <<script, parserVars, graphVars, resultVars>>
    /\ UNCHANGED <<schema, source_tables, target_tables, intermediate_tables, column_flows>>
    /\ UNCHANGED <<dml_statements, csharp_metadata, table_categories, frames>>

CategorizeTables ==
    /\ script = "enhanced" /\ pc = "categorize"
    /\ LET cats == _categorize_tables(metadata, table_column_map,
                     [source_tables |-> source_tables, target_tables |-> target_tables,
                      intermediate_tables |-> intermediate_tables])
       IN  /\ source_tables' = cats.source_tables
           /\ target_tables' = cats.target_tables
           /\ intermediate_tables' = cats.intermediate_tables
    /\ pc' = "extract"
    /\ UNCHANGED <<script, parserVars, graphVars, resultVars>>
    /\ UNCHANGED <<schema, column_flows, table_column_map, column_table_map>>
    /\ UNCHANGED <<dml_statements, csharp_metadata, table_categories, frames>>

\* _extract_sqllineage_flows: one turn of the loop over dml_statements
ExtractSqllineageFlows(i) ==
    /\ script = "enhanced" /\ pc = "extract"
    /\ Len(dml_statements) < MaxStatements
    /\ dml_statements # <<>> => dml_statements[Len(dml_statements)] < i
    /\ dml_statements' = Append(dml_statements, i)
    /\ LET st == AddFlows([column_flows |-> column_flows, column_table_map |-> column_table_map],
                          Statements[i])
       IN  /\ column_flows' = st.column_flows
           /\ column_table_map' = st.column_table_map
    /\ UNCHANGED <<script, pc, parserVars, graphVars, resultVars>>
    /\ UNCHANGED <<schema, source_tables, target_tables, intermediate_tables, table_column_map>>
    /\ UNCHANGED <<csharp_metadata, table_categories, frames>>

MergeMetadataFlows ==
    /\ script = "enhanced" /\ pc = "extract"
    /\ LET st == _merge_metadata_flows(
                   [column_flows |-> column_flows, column_table_map |-> column_table_map], metadata)
       IN  /\ column_flows' = st.column_flows
           /\ column_table_map' = st.column_table_map
    /\ pc' = "trace"
    /\ UNCHANGED <<script, parserVars, graphVars, resultVars>>
    /\ UNCHANGED <<schema, source_tables, target_tables, intermediate_tables, table_column_map>>
    /\ UNCHANGED <<dml_statements, csharp_metadata, table_categories, frames>>

\* EnhancedSQLLineageParser._trace_end_to_end_lineage
EnhancedTraceEndToEndLineage ==
    /\ script = "enhanced" /\ pc = "trace"
    /\ \E order \in IterationOrders(column_flows), src_order \in Perms(source_tables),
          tgt_order \in Perms(target_tables) :
         LET cx == EnhancedContext(column_flows, column_table_map, target_tables, order)
         IN  /\ all_mappings' = EnhancedAllMappings(cx, table_column_map, src_order, tgt_order)
             /\ end_to_end_mappings' = _deduplicate_mappings(all_mappings')
             /\ found_paths' = TracedPaths(cx, table_column_map, src_order)
    /\ pc' = "traced"
    /\ UNCHANGED <<script, procedure_body, column_mappings, sorted_mappings>>
    /\ UNCHANGED <<graphVars, calls, query, found_columns, lineages, extVars>>

(***************************************************************************)
(* hybrid_sql_lineage_parser.py: EnhancedGenericSQLLineageParser           *)
(***************************************************************************)
\* the metadata the C# parser hands over
CsharpMetadataFiles ==
    { [NoCsharpMetadata EXCEPT !.source_tables = <<t_staging_t>>, !.target_tables = <<t_Core_Fin>>],
      [NoCsharpMetadata EXCEPT !.source_tables = <<t_staging_t, t_ref_a>>,
                               !.target_tables = <<t_core_fin, t_core_work>>],
      [source_tables |-> <<t_staging_t>>, target_tables |-> <<t_core_fin>>,
       column_lineages |-> <<Lineage(t_staging_t, w_id, t_raw, w_id)>>,
       merge_patterns |-> <<[source_table |-> t_raw, target_table |-> t_Core_Fin]>>],
      [NoCsharpMetadata EXCEPT !.source_tables = <<t_ref_a>>, !.target_tables = <<t_ref_a>>],
      [NoCsharpMetadata EXCEPT !.source_tables = <<t_raw>>, !.target_tables = <<t_core_fin>>],
      [NoCsharpMetadata EXCEPT !.source_tables = <<t_staging_t>>,
                               !.target_tables = <<t_core_fin, t_core_work>>,
                               !.column_lineages = <<Lineage(t_staging_t, w_id, t_raw, w_id)>>] }

\* the keys of self.source_tables and self.target_tables after __init__
_initialize_from_csharp_metadata(md) ==
    [source |-> {Lower(md.source_tables[k]) : k \in DOMAIN md.source_tables},
     target |-> {Lower(md.target_tables[k]) : k \in DOMAIN md.target_tables}]

RECURSIVE AddPythonFlows(_, _)
\* comprehensive_flows after the loop over self.column_mappings
AddPythonFlows(flows, mappings) ==
    IF mappings = <<>> THEN flows
    ELSE ListAppend(AddPythonFlows(flows, Front(mappings)),
                    Lower(mappings[Len(mappings)].source_column),
                    Lower(mappings[Len(mappings)].target_column))

RECURSIVE AddCsharpFlows(_, _)
\* comprehensive_flows after the loop over csharp_metadata['column_lineages']
AddCsharpFlows(flows, column_lineages) ==
    IF column_lineages = <<>> THEN flows
    ELSE ListAppend(AddCsharpFlows(flows, Front(column_lineages)),
                    SourceOf(column_lineages[Len(column_lineages)]),
                    TargetOf(column_lineages[Len(column_lineages)]))

RECURSIVE PutTables(_, _)
PutTables(c2t, cols) ==
    IF cols = <<>> THEN c2t ELSE WithTable(PutTables(c2t, Front(cols)), cols[Len(cols)])

\* comprehensive_column_to_table: the keys of the flows, then their values
ComprehensiveColumnToTable(flows) ==
    PutTables(PutTables(EmptyDict, flows.keys),
              Flatten([i \in DOMAIN flows.keys |-> flows.val[flows.keys[i]]]))

RECURSIVE GroupByName(_)
\* column name -> the columns of that name, in the order given
GroupByName(cols) ==
    IF cols = <<>> THEN EmptyDict
    ELSE ListAppend(GroupByName(Front(cols)), ColumnPart(cols[Len(cols)]), cols[Len(cols)])

RECURSIVE PutAll(_, _)
\* d after d[k] = v for each <<k, v>> of puts in turn
PutAll(d, puts) ==
    IF puts = <<>> THEN d
    ELSE DictPut(PutAll(d, Front(puts)), puts[Len(puts)][1], puts[Len(puts)][2])

common_mappings ==
    << <<w_hashid, w_idempotencykey>>, <<w_srcid, w_batchid>>, <<w_batchdate, w_postingdate>>,
       <<w_txnexternalid, w_hashid>>, <<w_fromccy, w_fromcurrency>>, <<w_toccy, w_tocurrency>>,
       <<w_fxrate, w_rate>> >>

IsTempName(table) == StartsWith(table, w_hash) \/ StartsWith(table, w_default_hash)

_discover_dynamic_bridges(md, flows, c2t, sources, finals) ==
    LET cols == c2t.keys
        intermediate == {t \in DictValues(c2t) : IsTempName(t) /\ t \notin sources /\ t \notin finals}
        target_columns == GroupByName(SelectSeq(cols, LAMBDA c : c2t.val[c] \in finals))
        intermediate_columns == GroupByName(SelectSeq(cols, LAMBDA c : c2t.val[c] \in intermediate))
        NoFlow(a, b) == b \notin Range(DictGet(flows, a, <<>>))
        \* Strategy 1: the same column name in an intermediate and a target table
        names == intermediate_columns.keys
        ByName(name) ==
            IF DictHas(target_columns, name)
            THEN Flatten([i \in DOMAIN intermediate_columns.val[name] |->
                     [j \in DOMAIN SelectSeq(target_columns.val[name],
                                             LAMBDA t : NoFlow(intermediate_columns.val[name][i], t)) |->
                         <<intermediate_columns.val[name][i],
                           SelectSeq(target_columns.val[name],
                                     LAMBDA t : NoFlow(intermediate_columns.val[name][i], t))[j]>>]])
            ELSE <<>>
        strategy1 == Flatten([n \in DOMAIN names |-> ByName(names[n])])
        \* Strategy 2: the MERGE patterns of the metadata
        ByPattern(pattern) ==
            LET source_table == Lower(pattern.source_table)
                target_table == Lower(pattern.target_table)
                source_cols == SelectSeq(cols, LAMBDA c : c2t.val[c] = source_table)
                target_cols == SelectSeq(cols, LAMBDA c : c2t.val[c] = target_table)
                Matching(source_col) ==
                    SelectSeq(target_cols, LAMBDA tc : ColumnPart(tc) = ColumnPart(source_col))
            IN  IF source_table # None /\ target_table # None
                THEN Flatten([i \in DOMAIN source_cols |->
                         [j \in DOMAIN Matching(source_cols[i]) |->
                             <<source_cols[i], Matching(source_cols[i])[j]>>]])
                ELSE <<>>
        strategy2 == Flatten([p \in DOMAIN md.merge_patterns |-> ByPattern(md.merge_patterns[p])])
        \* Strategy 3: the common transformation names
        BySmartName(col) ==
            LET hit == {k \in DOMAIN common_mappings : common_mappings[k][1] = ColumnPart(col)}
                target_column_name == common_mappings[CHOOSE k \in hit : TRUE][2]
                matching == SelectSeq(DictGet(target_columns, target_column_name, <<>>),
                                      LAMBDA t : NoFlow(col, t))
            IN  IF c2t.val[col] \in intermediate /\ hit # {}
                THEN [j \in DOMAIN matching |-> <<col, matching[j]>>]
                ELSE <<>>
        strategy3 == Flatten([i \in DOMAIN cols |-> BySmartName(cols[i])])
    IN  PutAll(EmptyDict, strategy1 \o strategy2 \o strategy3)

RECURSIVE AddBridges(_, _, _)
\* the loop 'for source_col, target_col in dynamic_bridges.items()', over the first n items
AddBridges(flows, bridges, n) ==
    IF n = 0 THEN flows
    ELSE ListAppend(AddBridges(flows, bridges, n - 1), bridges.keys[n], bridges.val[bridges.keys[n]])

\* comprehensive_flows with the bridges added
ComprehensiveFlows(mappings, md) ==
    LET flows == AddCsharpFlows(AddPythonFlows(EmptyDict, mappings), md.column_lineages)
        sources == {Lower(t) : t \in Range(md.source_tables)}
        finals == {Lower(t) : t \in Range(md.target_tables)}
        bridges == _discover_dynamic_bridges(md, flows, ComprehensiveColumnToTable(flows), sources, finals)
    IN  AddBridges(flows, bridges, Len(bridges.keys))

\* what find_complete_paths_to_finals closes over
HybridContext(mappings, md) ==
    LET flows == ComprehensiveFlows(mappings, md)
    IN  [comprehensive_flows |-> flows,
         comprehensive_column_to_table |-> ComprehensiveColumnToTable(flows),
         source_tables |-> {Lower(t) : t \in Range(md.source_tables)},
         final_target_tables |-> {Lower(t) : t \in Range(md.target_tables)}]

RECURSIVE find_complete_paths_to_finals(_, _, _, _)
find_complete_paths_to_finals(cx, start_col, visited, path) ==
    IF start_col \in visited THEN <<>>
    ELSE LET current_path == Append(path, start_col)
             succ == DictGet(cx.comprehensive_flows, start_col, <<>>)
         IN  IF /\ DictHas(cx.comprehensive_column_to_table, start_col)
                /\ cx.comprehensive_column_to_table.val[start_col] \in cx.final_target_tables
             THEN <<current_path>>
             ELSE Flatten([i \in DOMAIN succ |->
                     find_complete_paths_to_finals(cx, succ[i], visited \cup {start_col}, current_path)])

cte_names == <<w_x, w_r, w_a, w_j, w_joinmap>>

\* the test for an original source column
IsOriginalSource(cx, source_col) ==
    /\ DictHas(cx.comprehensive_column_to_table, source_col)
    /\ LET source_table == cx.comprehensive_column_to_table.val[source_col]
       IN  /\ source_table \in cx.source_tables
           /\ ~StartsWith(source_table, w_hash)
           /\ ~StartsWith(source_table, w_default_hash)
           /\ source_table \notin Range(cte_names)

\* the complete paths found from the original source columns
CompletePaths(cx) ==
    LET keys == cx.comprehensive_flows.keys
    IN  Flatten([i \in DOMAIN keys |->
            IF IsOriginalSource(cx, keys[i])
            THEN find_complete_paths_to_finals(cx, keys[i], {}, <<>>)
            ELSE <<>>])

RECURSIVE Join(_, _)
\* sep.join(parts)
Join(sep, parts) ==
    IF parts = <<>> THEN <<>>
    ELSE IF Len(parts) = 1 THEN parts[1]
    ELSE Join(sep, Front(parts)) \o sep \o parts[Len(parts)]

\* the tables of the steps, each once, in the order of their first step
StepTables(steps) ==
    LET tables == [i \in DOMAIN steps |-> TablePart(steps[i])]
    IN  Pick(tables, {i \in DOMAIN steps :
                        HasDot(steps[i]) /\ \A j \in 1..(i - 1) : ~HasDot(steps[j]) \/ tables[j] # tables[i]})

HybridMapping(complete_path) ==
    LET source_full == complete_path[1]
        target_full == complete_path[Len(complete_path)]
    IN  [source_table |-> TablePart(source_full), source_column |-> ColumnPart(source_full),
         target_table |-> TablePart(target_full), target_column |-> ColumnPart(target_full),
         steps |-> Len(complete_path),
         path |-> Join(<<" ", "→", " ">>, complete_path),
         intermediate_tables |-> StepTables(SubSeq(complete_path, 2, Len(complete_path) - 1))]

\* end_to_end_mappings of the hybrid trace when the duplicates are removed
HybridMappings(cx) ==
    LET paths == CompletePaths(cx)
        OfPath(complete_path) ==
            IF /\ Len(complete_path) >= 2
               /\ HasDot(complete_path[1]) /\ HasDot(complete_path[Len(complete_path)])
            THEN <<HybridMapping(complete_path)>>
            ELSE <<>>
    IN  Flatten([i \in DOMAIN paths |-> OfPath(paths[i])])

\* keeps, of the mappings with the same key, the first one
unique_mappings(mappings) ==
    Pick(mappings, {i \in DOMAIN mappings :
                      \A j \in 1..(i - 1) : MappingKey(mappings[j]) # MappingKey(mappings[i])})

\* EnhancedGenericSQLLineageParser._trace_end_to_end_lineage
HybridTraceEndToEndLineage ==
    /\ script = "hybrid" /\ pc = "analyze"
    /\ LET cx == HybridContext(column_mappings, csharp_metadata)
       IN  /\ all_mappings' = HybridMappings(cx)
           /\ end_to_end_mappings' = unique_mappings(all_mappings')
           /\ found_paths' = CompletePaths(cx)
    /\ RefineTableCategorization
    /\ pc' = "traced"
    /\ UNCHANGED <<script, procedure_body, column_mappings, sorted_mappings>>
    /\ UNCHANGED <<graphVars, calls, query, found_columns, lineages>>
    /\ UNCHANGED <<schema, column_flows, table_column_map, column_table_map>>
    /\ UNCHANGED <<dml_statements, csharp_metadata, table_categories, frames>>

(***************************************************************************)
(* advanced_lineage_tracer.py                                              *)
(***************************************************************************)
AdvancedDefaultMaxDepth == 10

\* the columns a trace can start from
StartColumns == {c_staging_t_id, c_ref_a_id, c_raw_rid, c_x_rid}

\* result.source_tables and result.target_tables of a statement, as the
\* tables its column-lineage tuples read and write
StatementSourceTables(column_lineage) ==
    {TablePart(column_lineage[k][1]) : k \in DOMAIN column_lineage}

StatementTargetTables(column_lineage) ==
    {TablePart(column_lineage[k][Len(column_lineage[k])]) : k \in DOMAIN column_lineage}

advanced_source_marks == <<w_staging \o <<".">>, w_ref \o <<".">> >>

advanced_target_marks == <<w_core \o <<".">>, w_audit \o <<".">>, w_ops \o <<".">> >>

advanced_intermediate_marks == <<w_hash, w_temp, w_work>>

\* table_categories after the tables of one statement are tracked
TrackCategories(cats, column_lineage) ==
    LET sources == {Lower(t) : t \in StatementSourceTables(column_lineage)}
        targets == {Lower(t) : t \in StatementTargetTables(column_lineage)}
        src == {t \in sources : AnyContains(advanced_source_marks, t)}
        tgt == {t \in targets : AnyContains(advanced_target_marks, t)}
    IN  [source |-> cats.source \cup src,
         target |-> cats.target \cup tgt,
         intermediate |-> cats.intermediate
             \cup {t \in sources \ src : AnyContains(advanced_intermediate_marks, t)}
             \cup {t \in targets \ tgt : AnyContains(advanced_intermediate_marks, t)}]

RECURSIVE AddConnections(_, _, _)
\* the loop 'for mapping in column_lineage' over lineage_graph, in statement stmt_num
AddConnections(graph, column_lineage, stmt_num) ==
    IF column_lineage = <<>> THEN graph
    ELSE LET h == AddConnections(graph, Front(column_lineage), stmt_num)
             mapping == column_lineage[Len(column_lineage)]
             source_col == Lower(mapping[1])
             target_col == Lower(mapping[Len(mapping)])
         IN  IF Len(mapping) >= 2 /\ source_col # None /\ target_col # None
             THEN ListAppend(h, source_col, <<target_col, stmt_num>>)
             ELSE h

RECURSIVE dfs_trace(_, _, _, _, _)
RECURSIVE DfsLoop(_, _, _, _, _)
\* dfs_trace, as the visited set and the final_destinations it leaves behind
dfs_trace(cx, st, current_col, path, depth) ==
    IF depth > cx.max_depth \/ current_col \in st.visited THEN st
    ELSE LET marked == [st EXCEPT !.visited = @ \cup {current_col}]
             is_final == \E target_table \in cx.table_categories.target :
                            Contains(target_table, current_col)
         IN  IF is_final
             THEN [marked EXCEPT !.final_destinations =
                                    Append(@, <<current_col, Append(path, current_col)>>)]
             ELSE IF DictHas(cx.lineage_graph, current_col)
             THEN DfsLoop(cx, marked, cx.lineage_graph.val[current_col],
                          Append(path, current_col), depth + 1)
             ELSE marked

\* the loop 'for next_col, stmt_num in lineage_graph[current_col]'
DfsLoop(cx, st, nexts, path, depth) ==
    IF nexts = <<>> THEN st
    ELSE DfsLoop(cx, dfs_trace(cx, st, Head(nexts)[1], path, depth), Tail(nexts), path, depth)

trace_column_path(graph, cats, start_column, max_depth) ==
    dfs_trace([lineage_graph |-> graph, table_categories |-> cats, max_depth |-> max_depth],
              [visited |-> {}, final_destinations |-> <<>>], start_column, <<>>, 0).final_destinations

\* one turn of the loop over dml_statements that builds the lineage graph
AdvancedStatement(i) ==
    /\ script = "advanced" /\ pc = "build"
    /\ Len(dml_statements) < MaxStatements
    /\ dml_statements # <<>> => dml_statements[Len(dml_statements)] < i
    /\ dml_statements' = Append(dml_statements, i)
    /\ table_categories' = TrackCategories(table_categories, Statements[i])
    /\ lineage_graph' = AddConnections(lineage_graph, Statements[i], Len(dml_statements) + 1)
    /\ UNCHANGED <<script, pc, parserVars, resultVars, schemaVars, csharp_metadata, frames>>
    /\ UNCHANGED <<metadata, forward_graph, reverse_graph, all_columns, column_metadata>>

TraceColumnPath(start_column, max_depth) ==
    /\ script = "advanced" /\ pc \in {"build", "trace"}
    /\ calls < MaxCalls /\ calls' = calls + 1
    /\ LET final_destinations ==
               trace_column_path(lineage_graph, table_categories, start_column, max_depth)
       IN  /\ found_paths' = [k \in DOMAIN final_destinations |-> final_destinations[k][2]]
           /\ found_columns' = {final_destinations[k][1] : k \in DOMAIN final_destinations}
    /\ query' = [source |-> start_column, target |-> None, max_depth |-> max_depth]
    /\ lineages' = {}
    /\ pc' = "trace"
    /\ UNCHANGED <<script, parserVars, graphVars, extVars>>

\* the dicts expected_final_mappings can be
ExpectedFinalMappings ==
    { PutAll(EmptyDict, << <<c_staging_t_id, c_core_fin_id>> >>),
      PutAll(EmptyDict, << <<c_staging_t_id, c_core_fin_id>>, <<c_ref_a_id, c_core_fin_id>> >>),
      PutAll(EmptyDict, << <<c_r_rid, c_core_fin_id>> >>),
      PutAll(EmptyDict, << <<c_dbo_misc_id, c_core_fin_id>>, <<c_x_rid, c_core_fin_id>> >>) }

\* all_columns_seen: the two ends of every connection of lineage_graph
all_columns_seen(graph) ==
    Range(graph.keys) \cup
    UNION {{graph.val[k][n][1] : n \in DOMAIN graph.val[k]} : k \in Range(graph.keys)}

\* 'table_part in col and column_part in col', the parts being the first two
\* parts of name
MatchesParts(name, col) ==
    LET parts == SplitOn(name, ".")
    IN  /\ Len(parts) >= 2
        /\ Contains(Lower(parts[1]), col)
        /\ Contains(Lower(parts[2]), col)

\* the entry one matching source adds to traced_mappings, if any
TracedFor(graph, cats, expected_source, expected_target, source_col) ==
    LET destinations == trace_column_path(graph, cats, source_col, AdvancedDefaultMaxDepth)
        hits == SelectSeq(destinations, LAMBDA d : MatchesParts(expected_target, d[1]))
    IN  IF hits = <<>> THEN <<>>
        ELSE <<[source |-> expected_source, target |-> expected_target,
                source_actual |-> source_col, target_actual |-> hits[1][1],
                path |-> hits[1][2], status |-> "TRACED"]>>

\* one turn of the loop over expected_final_mappings.items(); order is the
\* order in which all_columns_seen is iterated
ValidateOne(graph, cats, order, expected_source, expected_target) ==
    LET matching_sources == SelectSeq(order, LAMBDA col : MatchesParts(expected_source, col))
    IN  IF matching_sources # <<>>
        THEN Flatten([i \in DOMAIN matching_sources |->
                 TracedFor(graph, cats, expected_source, expected_target, matching_sources[i])])
        ELSE <<[source |-> expected_source, target |-> expected_target,
                source_actual |-> None, target_actual |-> None,
                path |-> <<>>, status |-> "NO SOURCE FOUND"]>>

traced_mappings(graph, cats, expected, order) ==
    Flatten([k \in DOMAIN expected.keys |->
        ValidateOne(graph, cats, order, expected.keys[k], expected.val[expected.keys[k]])])

\* the validation of the expected mappings against the graph
ValidateExpectedMappings(expected) ==
    /\ script = "advanced" /\ pc \in {"build", "trace"}
    /\ \E order \in Perms({col \in all_columns_seen(lineage_graph) :
                             \E k \in DOMAIN expected.keys : MatchesParts(expected.keys[k], col)}) :
          all_mappings' = traced_mappings(lineage_graph, table_categories, expected, order)
    /\ end_to_end_mappings' = expected
    /\ pc' = "validated"
    /\ UNCHANGED <<script, procedure_body, column_mappings, sorted_mappings>>
    /\ UNCHANGED <<graphVars, resultVars, extVars>>

(***************************************************************************)
(* The searches, one step of the interpreter at a time                     *)
(***************************************************************************)
\* the frame of a recursive call that has not run its first line yet
Frame(column, visited, path) ==
    [column |-> column, visited |-> visited, path |-> path, entered |-> FALSE,
     todo |-> <<>>, acc |-> <<>>]

\* the top frame returns value: the caller extends its result by it, and the
\* call that was made from outside is done
ReturnFromFrame(fr, value) ==
    IF Len(fr.stack) = 1
    THEN [fr EXCEPT !.stack = <<>>, !.done = TRUE, !.paths = value]
    ELSE [fr EXCEPT !.stack = Front(Front(fr.stack)) \o
                                <<[fr.stack[Len(fr.stack) - 1] EXCEPT !.acc = @ \o value]>>]

\* the top frame calls itself on the next column of its loop
CallFromFrame(fr, visited, path) ==
    LET top == fr.stack[Len(fr.stack)]
    IN  [fr EXCEPT !.stack = Front(fr.stack)
                               \o <<[top EXCEPT !.todo = Tail(@)]>>
                               \o <<Frame(Head(top.todo), visited, path)>>]

\* the top frame starts its loop over the columns todo
EnterLoop(fr, todo) ==
    [fr EXCEPT !.stack = Front(fr.stack)
                           \o <<[fr.stack[Len(fr.stack)] EXCEPT !.entered = TRUE, !.todo = todo]>>]

\* LineageAnalyzer.find_paths is called
CallFindPaths(source, target, max_depth) ==
    /\ script = "analyzer" /\ pc = "ready"
    /\ calls < MaxCalls /\ calls' = calls + 1
    /\ frames.kind = "none"
    /\ frames' = IF source = target
                 THEN [NoFrames EXCEPT !.kind = "find_paths", !.done = TRUE,
                                       !.paths = <<<<source>>>>]
                 ELSE [NoFrames EXCEPT !.kind = "find_paths",
                                       !.queue = <<<<source, <<source>>>>>>]
    /\ query' = [source |-> source, target |-> target, max_depth |-> max_depth]
    /\ UNCHANGED <<script, pc, parserVars, graphVars, found_paths, found_columns, lineages>>
    /\ UNCHANGED <<schemaVars, dml_statements, csharp_metadata, table_categories>>

\* one turn of the loop 'while queue' of find_paths, or its return
FindPathsStep ==
    /\ frames.kind = "find_paths" /\ ~frames.done
    /\ IF frames.queue = <<>>
       THEN frames' = [frames EXCEPT !.done = TRUE]
       ELSE \E order \in IterationOrders(forward_graph) :
              LET st == FindPathsIteration(forward_graph, order, query.target, query.max_depth,
                                           [queue |-> frames.queue, paths |-> frames.paths])
              IN  frames' = [frames EXCEPT !.queue = st.queue, !.paths = st.paths]
    /\ UNCHANGED <<script, pc, parserVars, graphVars, resultVars>>
    /\ UNCHANGED <<schemaVars, dml_statements, csharp_metadata, table_categories>>

\* find_ultimate_sources (kind "find_ultimate_sources") or find_ultimate_targets is called
CallFindUltimate(kind, column) ==
    /\ script = "analyzer" /\ pc = "ready"
    /\ calls < MaxCalls /\ calls' = calls + 1
    /\ frames.kind = "none"
    /\ frames' = [NoFrames EXCEPT !.kind = kind, !.stack = <<Frame(column, {}, <<>>)>>]
    /\ query' = IF kind = "find_ultimate_sources"
                THEN [NoQuery EXCEPT !.target = column]
                ELSE [NoQuery EXCEPT !.source = column]
    /\ UNCHANGED <<script, pc, parserVars, graphVars, found_paths, found_columns, lineages>>
    /\ UNCHANGED <<schemaVars, dml_statements, csharp_metadata, table_categories>>

\* one step of the call on top of the stack of find_ultimate_sources or
\* find_ultimate_targets; the columns found are kept as a list
FindUltimateStep ==
    /\ frames.kind \in {"find_ultimate_sources", "find_ultimate_targets"} /\ ~frames.done
    /\ LET graph == IF frames.kind = "find_ultimate_sources" THEN reverse_graph ELSE forward_graph
           top == frames.stack[Len(frames.stack)]
       IN  IF ~top.entered
           THEN IF top.column \in top.visited
                THEN frames' = ReturnFromFrame(frames, <<>>)
                ELSE IF ~DictHas(graph, top.column)
                THEN frames' = ReturnFromFrame(frames, <<top.column>>)
                ELSE \E todo \in Perms(graph.val[top.column]) : frames' = EnterLoop(frames, todo)
           ELSE IF top.todo = <<>>
                THEN frames' = ReturnFromFrame(frames, top.acc)
                ELSE frames' = CallFromFrame(frames, top.visited \cup {top.column}, <<>>)
    /\ UNCHANGED <<script, pc, parserVars, graphVars, resultVars>>
    /\ UNCHANGED <<schemaVars, dml_statements, csharp_metadata, table_categories>>

\* the trace of the generic parser calls find_all_paths_to_finals on a source
\* column; closure holds the variables of the trace the nested function reads
CallFindAllPathsToFinals(source_col) ==
    /\ script = "generic" /\ pc = "analyze"
    /\ frames.kind = "none"
    /\ LET cx == TraceContext(column_mappings, procedure_body, <<>>)
       IN  /\ IsSourceColumn(cx, source_col)
           /\ frames' = [NoFrames EXCEPT !.kind = "find_all_paths_to_finals",
                                         !.stack = <<Frame(source_col, {}, <<>>)>>,
                                         !.closure = cx]
    /\ query' = [NoQuery EXCEPT !.source = source_col]
    /\ pc' = "tracing"
    /\ RefineTableCategorization
    /\ UNCHANGED <<script, parserVars, graphVars, calls, found_paths, found_columns, lineages>>
    /\ UNCHANGED <<schema, column_flows, table_column_map, column_table_map>>
    /\ UNCHANGED <<dml_statements, csharp_metadata, table_categories>>

\* one step of the call on top of the stack of find_all_paths_to_finals
FindAllPathsStep ==
    /\ frames.kind = "find_all_paths_to_finals" /\ ~frames.done
    /\ LET cx == frames.closure
           top == frames.stack[Len(frames.stack)]
           current_path == Append(top.path, top.column)
       IN  IF ~top.entered
           THEN IF top.column \in top.visited
                THEN frames' = ReturnFromFrame(frames, <<>>)
                ELSE IF InFinalTable(cx, top.column)
                THEN frames' = ReturnFromFrame(frames, <<current_path>>)
                ELSE \E todo \in Perms(DictGet(cx.all_flows, top.column, {})) :
                       frames' = EnterLoop(frames, todo)
           ELSE IF top.todo = <<>>
                THEN frames' = ReturnFromFrame(frames, top.acc)
                ELSE frames' = CallFromFrame(frames, top.visited \cup {top.column}, current_path)
    /\ UNCHANGED <<script, pc, parserVars, graphVars, resultVars>>
    /\ UNCHANGED <<schemaVars, dml_statements, csharp_metadata, table_categories>>

(***************************************************************************)
(* ultimate_lineage_parser.py                                              *)
(***************************************************************************)
t_staging_work == Dot(w_default, w_staging_work)
t_ref_temp == Dot(w_default, w_ref_temp)
t_core_ledgerwork == Dot(w_core, w_ledger \o w_work)

c_staging_work_id == Dot(t_staging_work, w_id)
c_ref_temp_id == Dot(t_ref_temp, w_id)
c_core_ledgerwork_id == Dot(t_core_ledgerwork, w_id)

\* what sqllineage yields for the statements of the script: the source, target
\* and intermediate tables and the column-lineage tuples, None where
\* sqllineage names no column
UltimateStatements ==
    << [source_tables |-> <<t_staging_t>>, target_tables |-> <<t_staging_work>>,
        intermediate_tables |-> <<>>,
        column_lineage |-> << <<c_staging_t_id, c_staging_work_id>> >>],
       [source_tables |-> <<t_staging_work, t_ref_temp>>, target_tables |-> <<t_raw>>,
        intermediate_tables |-> <<t_x>>,
        column_lineage |-> << <<c_staging_work_id, c_raw_rid>>, <<c_ref_temp_id, None>> >>],
       [source_tables |-> <<t_raw>>, target_tables |-> <<t_core_ledgerwork>>,
        intermediate_tables |-> <<>>,
        column_lineage |-> << <<c_raw_rid, c_core_ledgerwork_id>> >>],
       [source_tables |-> <<t_raw>>, target_tables |-> <<t_core_fin>>,
        intermediate_tables |-> <<>>,
        column_lineage |-> << <<None, c_core_fin_id>>, <<c_raw_rid, c_core_fin_id>> >>],
       [source_tables |-> <<t_ref_a>>, target_tables |-> <<t_core_fin, t_core_work>>,
        intermediate_tables |-> <<>>,
        column_lineage |-> << <<c_ref_a_id, c_core_fin_id>> >>],
       [source_tables |-> <<t_staging_t>>, target_tables |-> <<t_ref_a>>,
        intermediate_tables |-> <<>>,
        column_lineage |-> << <<c_staging_t_id, c_ref_a_id>> >>] >>

extract_table_name(table_str) ==
    IF table_str = None THEN w_unknown ELSE ColumnPart(Lower(table_str))

ultimate_source_patterns == <<w_staging, w_ref>>

ultimate_intermediate_patterns ==
    <<w_hash, w_temp, w_work, w_stage, w_valid, w_invalid, w_fees, w_post, w_bal, w_scores>>

ultimate_target_patterns == <<w_core, w_audit, w_ops>>

categorize_table(table_name) ==
    LET table_lower == Lower(table_name)
    IN  IF AnyContains(ultimate_source_patterns, table_lower) THEN "source"
        ELSE IF AnyContains(ultimate_intermediate_patterns, table_lower) THEN "intermediate"
        ELSE IF AnyContains(ultimate_target_patterns, table_lower) THEN "target"
        ELSE "other"

NoAllTables == [source |-> {}, intermediate |-> {}, target |-> {}, other |-> {}]

RECURSIVE TrackTables(_, _)
\* all_tables[categorize_table(name)].add(name) for the tables of one list
TrackTables(all_tables, tables) ==
    IF tables = <<>> THEN all_tables
    ELSE LET table_name == extract_table_name(Head(tables))
             category == categorize_table(table_name)
         IN  TrackTables([all_tables EXCEPT ![category] = @ \cup {table_name}], Tail(tables))

\* table_flow[source_name].add(target_name) for every source and target of a statement
TrackTableFlow(table_flow, sources, targets) ==
    LET AddSource(flow, n) ==
            LET source_name == extract_table_name(sources[n])
            IN  IF targets = <<>> THEN flow
                ELSE DictPut(flow, source_name,
                             DictGet(flow, source_name, {})
                                \cup {extract_table_name(targets[k]) : k \in DOMAIN targets})
        Loop[n \in 0..Len(sources)] == IF n = 0 THEN table_flow ELSE AddSource(Loop[n - 1], n)
    IN  Loop[Len(sources)]

\* the entries appended to column_flows for the tuples of statement number stage
TrackColumnFlows(column_lineage, stage) ==
    [k \in DOMAIN column_lineage |->
        <<IF column_lineage[k][1] # None THEN column_lineage[k][1] ELSE w_unknown,
          IF column_lineage[k][2] # None THEN column_lineage[k][2] ELSE w_unknown,
          stage>>]

\* one turn of the loop over dml_statements of create_end_to_end_lineage_report
UltimateStatement(i) ==
    /\ script = "ultimate" /\ pc = "build"
    /\ Len(dml_statements) < MaxStatements
    /\ dml_statements # <<>> => dml_statements[Len(dml_statements)] < i
    /\ dml_statements' = Append(dml_statements, i)
    /\ LET stmt == UltimateStatements[i]
           tracked == TrackTables(TrackTables(table_categories, stmt.source_tables),
                                  stmt.target_tables)
       IN  /\ table_categories' =
                [tracked EXCEPT !.intermediate = @ \cup
                    {extract_table_name(stmt.intermediate_tables[k]) :
                        k \in DOMAIN stmt.intermediate_tables}]
           /\ forward_graph' = TrackTableFlow(forward_graph, stmt.source_tables, stmt.target_tables)
           /\ column_flows' = column_flows \o
                                TrackColumnFlows(stmt.column_lineage, Len(dml_statements) + 1)
    /\ UNCHANGED <<script, pc, parserVars, resultVars, csharp_metadata, frames>>
    /\ UNCHANGED <<metadata, reverse_graph, all_columns, lineage_graph, column_metadata>>
    /\ UNCHANGED <<schema, source_tables, target_tables, intermediate_tables,
                   table_column_map, column_table_map>>

(***************************************************************************)
(* lineage_parser.py                                                       *)
(***************************************************************************)
\* s.endswith(suf)
EndsWith(s, suf) == Len(suf) <= Len(s) /\ SubSeq(s, Len(s) - Len(suf) + 1, Len(s)) = suf

\* column.parent.raw_name: the table name without its schema
raw_name(column) == ColumnPart(TablePart(column))

is_intermediate(column, defined_cte_names) ==
    LET table_name == raw_name(column)
    IN  \/ StartsWith(table_name, w_hash)
        \/ table_name \in defined_cte_names
        \/ EndsWith(table_name, w_work)

RECURSIVE BuildLineageMapFrom(_, _)
\* lineage_map after the loop over all_lineage_tuples
BuildLineageMapFrom(lineage_map, all_lineage_tuples) ==
    IF all_lineage_tuples = <<>> THEN lineage_map
    ELSE LET h == BuildLineageMapFrom(lineage_map, Front(all_lineage_tuples))
             lineage_tuple == all_lineage_tuples[Len(all_lineage_tuples)]
             target == lineage_tuple[Len(lineage_tuple)]
             source == lineage_tuple[1]
         IN  IF source # None /\ target # None THEN DictPut(h, target, source) ELSE h

RECURSIVE find_original_source(_, _, _, _)
find_original_source(lineage_map, column, defined_cte_names, visited) ==
    IF column \in visited THEN column
    ELSE LET source == DictGet(lineage_map, column, None)
         IN  IF source # None /\ is_intermediate(source, defined_cte_names)
             THEN find_original_source(lineage_map, source, defined_cte_names,
                                       visited \cup {column})
             ELSE IF source # None THEN source ELSE column

RECURSIVE FinalLineage(_, _, _)
\* final_lineage after the loop over the first n items of lineage_map
FinalLineage(lineage_map, defined_cte_names, n) ==
    IF n = 0 THEN EmptyDict
    ELSE LET h == FinalLineage(lineage_map, defined_cte_names, n - 1)
             target == lineage_map.keys[n]
             original_source == find_original_source(lineage_map, lineage_map.val[target],
                                                     defined_cte_names, {})
         IN  IF /\ ~is_intermediate(target, defined_cte_names)
                /\ original_source # None
                /\ ~is_intermediate(original_source, defined_cte_names)
             THEN DictPut(h, target, original_source)
             ELSE h

\* one turn of the loop over dml_statements: the tuples of the statement are
\* added to all_lineage_tuples; the names after WITH are the CTE names
LineageStatement(i) ==
    /\ script = "lineage" /\ pc = "build"
    /\ Len(dml_statements) < MaxStatements
    /\ dml_statements # <<>> => dml_statements[Len(dml_statements)] < i
    /\ dml_statements' = Append(dml_statements, i)
    /\ column_flows' = column_flows \o UltimateStatements[i].column_lineage
    /\ intermediate_tables' = intermediate_tables \cup
           {ColumnPart(UltimateStatements[i].intermediate_tables[k]) :
               k \in DOMAIN UltimateStatements[i].intermediate_tables}
    /\ UNCHANGED <<script, pc, parserVars, graphVars, resultVars>>
    /\ UNCHANGED <<schema, source_tables, target_tables, table_column_map, column_table_map>>
    /\ UNCHANGED <<csharp_metadata, table_categories, frames>>

\* steps 6 and 7 of the script: lineage_map and final_lineage
BuildLineageMap ==
    /\ script = "lineage" /\ pc = "build"
    /\ reverse_graph' = BuildLineageMapFrom(EmptyDict, column_flows)
    /\ lineages' = FinalLineage(reverse_graph', intermediate_tables, Len(reverse_graph'.keys))
    /\ pc' = "mapped"
    /\ UNCHANGED <<script, parserVars, calls, query, found_paths, found_columns, extVars>>
    /\ UNCHANGED <<metadata, forward_graph, all_columns, lineage_graph, column_metadata>>

(***************************************************************************)
(* final_comprehensive_parser.py                                           *)
(***************************************************************************)
w_fee == <<"f","e","e">>
w_flat == <<"f","l","a","t">>
w_calculation == <<"c","a","l","c","u","l","a","t","i","o","n">>
w_calculate == <<"c","a","l","c","u","l","a","t","e">>
w_currency == <<"c","u","r","r","e","n","c","y">>
w_fx == <<"f","x">>

c_ref_fee_flat == Dot(Dot(w_ref, w_fee), w_flat)
c_core_fin_fee == Dot(t_core_fin, w_fee)
c_ref_a_currency == Dot(t_ref_a, w_currency)
c_core_fin_amount == Dot(t_core_fin, w_amount)

\* expected_lineage["Column Mappings"]
ExpectedColumnMappings ==
    << <<c_staging_t_id, c_core_fin_id>>,
       <<c_ref_fee_flat, c_core_fin_fee>>,
       <<c_ref_a_currency, c_core_fin_amount>> >>

\* the procedure bodies the script is run on, each as its lines
SqlTexts ==
    { << <<"I","N","S","E","R","T"," ","I","N","T","O"," ","C","o","r","e",".","F","i","n"," ","S","E","L","E","C","T"," ","i","d"," ","F","R","O","M"," ","S","t","a","g","i","n","g",".","T">> >>,
      << <<"I","N","S","E","R","T"," ","I","N","T","O"," ","#","x"," ","S","E","L","E","C","T"," ","1">> >>,
      << <<"-","-"," ","f","e","e"," ","c","a","l","c","u","l","a","t","i","o","n">>,
         <<"I","N","S","E","R","T"," ","I","N","T","O"," ","C","o","r","e",".","F","i","n"," ","S","E","L","E","C","T"," ","f","l","a","t"," ","F","R","O","M"," ","R","e","f",".","F","e","e">> >>,
      << <<"-","-"," ","f","e","e"," ","c","a","l","c","u","l","a","t","i","o","n">>,
         <<"I","N","S","E","R","T"," ","I","N","T","O"," ","C","o","r","e",".","F","i","n"," ","S","E","L","E","C","T"," ","1">> >>,
      << <<"U","P","D","A","T","E"," ","C","o","r","e",".","F","i","n"," ","S","E","T"," ","a","m","o","u","n","t"," ","="," ","a","m","o","u","n","t"," ","*"," ","r","a","t","e">> >> }

\* 'needle in sql.lower()'
InSql(needle, sql) == \E n \in DOMAIN sql : Contains(needle, Lower(sql[n]))

\* re.search(r'first.*second', sql, re.IGNORECASE): both on one line, in this order
SearchInOrder(first, second, sql) ==
    \E n \in DOMAIN sql : \E k \in 0..Len(sql[n]) :
        /\ Contains(first, Lower(SubSeq(sql[n], 1, k)))
        /\ Contains(second, Lower(SubSeq(sql[n], k + 1, Len(sql[n]))))

\* name.lower().replace(" ", "")
Normalized(name) == SelectSeq(Lower(name), LAMBDA c : c # " ")

\* the test of one technical mapping against an expected pair
TechnicalMatch(source_col, target_col, tech) ==
    LET source_norm == Normalized(source_col)
        target_norm == Normalized(target_col)
        tech_source_norm == Normalized(tech[1])
        tech_target_norm == Normalized(tech[2])
    IN  \/ Contains(source_norm, tech_source_norm) /\ Contains(target_norm, tech_target_norm)
        \/ /\ AnyContains(SplitOn(source_norm, "."), tech_source_norm)
           /\ AnyContains(SplitOn(target_norm, "."), tech_target_norm)

\* business_evidence of an expected pair for which no technical mapping was
\* found; the first dot-part of a name holds no '.', so the replace calls on
\* it change nothing
business_evidence(sql, source_col, target_col) ==
    LET source_table == Lower(SplitOn(source_col, ".")[1])
        target_table == Lower(SplitOn(target_col, ".")[1])
    IN  (IF InSql(source_table, sql) THEN 1 ELSE 0)
        + (IF InSql(target_table, sql) THEN 1 ELSE 0)
        + (IF /\ Contains(w_fee, Lower(source_col)) /\ Contains(w_fee, Lower(target_col))
              /\ (SearchInOrder(w_fee, w_calculation, sql) \/ SearchInOrder(w_calculate, w_fee, sql))
           THEN 2 ELSE 0)
        + (IF /\ Contains(w_currency, Lower(source_col)) /\ Contains(w_amount, Lower(target_col))
              /\ (InSql(w_fx, sql) \/ InSql(w_currency, sql) \/ InSql(w_rate, sql))
           THEN 2 ELSE 0)

\* one turn of the loop over the expected column mappings
validation_result(sql, technical_mappings, source_col, target_col) ==
    LET evidence_found ==
            \E k \in DOMAIN technical_mappings :
                TechnicalMatch(source_col, target_col, technical_mappings[k])
        score == IF evidence_found THEN 0 ELSE business_evidence(sql, source_col, target_col)
        evidence_type ==
            IF evidence_found THEN "Technical Match"
            ELSE IF score >= 3 THEN "Strong Business Logic"
            ELSE IF score >= 2 THEN "Moderate Business Logic"
            ELSE IF score >= 1 THEN "Weak Evidence"
            ELSE "Not Found"
    IN  [source |-> source_col, target |-> target_col, evidence_type |-> evidence_type,
         validated |-> (evidence_found \/ score >= 2)]

\* the counters of the report loop over validation_results
ReportCounts(validation_results) ==
    LET Of(types) == Cardinality({i \in DOMAIN validation_results :
                                     validation_results[i].evidence_type \in types})
    IN  [validated_count |-> Of({"Technical Match", "Strong Business Logic",
                                 "Moderate Business Logic"}),
         technical_matches |-> Of({"Technical Match"}),
         business_logic_matches |-> Of({"Strong Business Logic"})]

\* one turn of the loop over dml_statements of comprehensive_lineage_report:
\* the column lineage of the statement is added to technical_mappings, held
\* in column_mappings
TechnicalStatement(i) ==
    /\ script = "final" /\ pc = "analysis"
    /\ Len(dml_statements) < MaxStatements
    /\ dml_statements # <<>> => dml_statements[Len(dml_statements)] < i
    /\ dml_statements' = Append(dml_statements, i)
    /\ column_mappings' = column_mappings \o
           [k \in DOMAIN Statements[i] |->
               <<Statements[i][k][1], Statements[i][k][Len(Statements[i][k])], Len(dml_statements) + 1>>]
    /\ UNCHANGED <<script, pc, procedure_body, all_mappings, end_to_end_mappings, sorted_mappings>>
    /\ UNCHANGED <<graphVars, resultVars, schemaVars, csharp_metadata, table_categories, frames>>

\* the validation of the expected mappings and the report of
\* comprehensive_lineage_report; all_mappings holds validation_results and
\* lineages the counters of the report
ValidateExpectedLineage ==
    /\ script = "final" /\ pc = "analysis"
    /\ all_mappings' = [k \in DOMAIN ExpectedColumnMappings |->
           validation_result(procedure_body, column_mappings,
                             ExpectedColumnMappings[k][1], ExpectedColumnMappings[k][2])]
    /\ lineages' = ReportCounts(all_mappings')
    /\ pc' = "reported"
    /\ UNCHANGED <<script, procedure_body, column_mappings, end_to_end_mappings, sorted_mappings>>
    /\ UNCHANGED <<graphVars, calls, query, found_paths, found_columns, extVars>>

(***************************************************************************)
(* generic_sql_lineage_parser.py: the extraction of the procedure body     *)
(***************************************************************************)
w_create == <<"c","r","e","a","t","e">>
w_procedure == <<"p","r","o","c","e","d","u","r","e">>
w_as == <<"a","s">>
w_begin == <<"b","e","g","i","n">>
w_end == <<"e","n","d">>

\* the header 'CREATE PROCEDURE dbo.p AS BEGIN'
sql_header == <<"C","R","E","A","T","E"," ","P","R","O","C","E","D","U","R","E"," ","d","b","o",".","p"," ","A","S"," ","B","E","G","I","N">>

\* a statement of 46 characters
sql_statement == <<"I","N","S","E","R","T"," ","I","N","T","O"," ","C","o","r","e",".","F","i","n"," ","S","E","L","E","C","T"," ","i","d"," ","F","R","O","M"," ","S","t","a","g","i","n","g",".","T",";">>

sql_if_block == <<"I","F"," ","1"," ","="," ","1"," ","B","E","G","I","N"," ","S","E","L","E","C","T"," ","1"," ","E","N","D">>

sql_while == <<"W","H","I","L","E"," ","1"," ","="," ","1"," ","B","E","G","I","N">>

NewLine == <<"\n">>

\* a procedure of three statements, with no nested block
sql_flat ==
    sql_header \o NewLine \o sql_statement \o NewLine \o sql_statement \o NewLine
        \o sql_statement \o NewLine \o <<"E","N","D">> \o NewLine \o <<"G","O">>

\* the same procedure with an IF block before the statements
sql_nested ==
    sql_header \o NewLine \o sql_if_block \o NewLine \o sql_statement \o NewLine
        \o sql_statement \o NewLine \o sql_statement \o NewLine \o <<"E","N","D">> \o NewLine \o <<"G","O">>

\* a procedure whose body is one statement
sql_short == sql_header \o NewLine \o sql_statement \o NewLine \o <<"E","N","D">> \o NewLine \o <<"G","O">>

\* a script that is no procedure
sql_script == sql_statement \o NewLine \o sql_statement

\* a procedure whose outer block is not closed
sql_open ==
    sql_header \o NewLine \o sql_while \o NewLine \o sql_statement \o NewLine \o <<"E","N","D">>

\* the SQL files the parser is constructed on
SqlContents == {sql_flat, sql_nested, sql_short, sql_script, sql_open}

\* s[a:b] and s[a:], with the offsets of Python
Slice(s, a, b) == IF a >= Min(b, Len(s)) THEN <<>> ELSE SubSeq(s, a + 1, Min(b, Len(s)))

SliceFrom(s, a) == Slice(s, a, Len(s))

IsSpace(c) == c \in {" ", "\n", "\t", "\r"}

\* a character of \w
IsWord(c) == LowerChar(c) \in Range(LowerCase) \cup {"0", "1", "2", "3", "4", "5", "6", "7", "8", "9", "_"}

SetMin(S) == CHOOSE x \in S : \A y \in S : x <= y

SetMax(S) == CHOOSE x \in S : \A y \in S : y <= x

\* the offsets of text at which the word w stands, whatever its case, with
\* a word boundary on both sides
WordOffsets(text, w) ==
    {i \in 0..(Len(text) - Len(w)) :
        /\ Lower(Slice(text, i, i + Len(w))) = w
        /\ (i = 0 \/ ~IsWord(text[i]))
        /\ (i + Len(w) = Len(text) \/ ~IsWord(text[i + Len(w) + 1]))}

\* re.search(r'\bw\b', text, re.IGNORECASE): the offset of the match, -1 for None
SearchWord(text, w) ==
    IF WordOffsets(text, w) = {} THEN -1 ELSE SetMin(WordOffsets(text, w))

\* the offset of the first character at or after offset i that is no space
SkipSpaces(text, i) ==
    IF i >= Len(text) THEN i
    ELSE SetMin({j \in i..Len(text) : j = Len(text) \/ ~IsSpace(text[j + 1])})

\* the offset after AS\s*BEGIN matched at offset a, -1 when it does not match
AsBeginEnd(text, a) ==
    IF /\ Lower(Slice(text, a, a + 2)) = w_as
       /\ Lower(Slice(text, SkipSpaces(text, a + 2), SkipSpaces(text, a + 2) + 5)) = w_begin
    THEN SkipSpaces(text, a + 2) + 5
    ELSE -1

\* the offset of the procedure name when CREATE\s+PROCEDURE\s+[^\s] matches at
\* offset i, -1 when it does not
NameStart(text, i) ==
    LET j1 == SkipSpaces(text, i + 6)
        j2 == SkipSpaces(text, j1 + 9)
    IN  IF /\ Lower(Slice(text, i, i + 6)) = w_create
           /\ j1 > i + 6
           /\ Lower(Slice(text, j1, j1 + 9)) = w_procedure
           /\ j2 > j1 + 9
           /\ j2 < Len(text)
        THEN j2 ELSE -1

\* the end of the match of CREATE\s+PROCEDURE\s+[^\s]+.*?AS\s*BEGIN that
\* starts at offset i: the name is taken whole and AS BEGIN as early as can
\* be after it, and when there is none, a shorter name is tried
ProcStartAt(text, i) ==
    LET name == NameStart(text, i)
        name_end == SetMin({k \in (name + 1)..Len(text) : k = Len(text) \/ IsSpace(text[k + 1])})
        starts == {a \in (name + 1)..Len(text) : AsBeginEnd(text, a) >= 0}
        after == {a \in starts : a >= name_end}
    IN  IF name < 0 \/ starts = {} THEN -1
        ELSE IF after # {} THEN AsBeginEnd(text, SetMin(after))
        ELSE AsBeginEnd(text, SetMax(starts))

\* proc_start_match.end() of re.search over the whole text, -1 for no match
ProcStartEnd(text) ==
    LET matches == {i \in 0..Len(text) : ProcStartAt(text, i) >= 0}
    IN  IF matches = {} THEN -1 ELSE ProcStartAt(text, SetMin(matches))

RECURSIVE FindEnd(_, _, _, _)
\* the loop 'while pos < len(self.sql_content) and begin_count > 0': end_pos
\* when the loop is left, -1 for None
FindEnd(sql_content, start_pos, begin_count, pos) ==
    IF ~(pos < Len(sql_content) /\ begin_count > 0) THEN -1
    ELSE LET begin_match == SearchWord(SliceFrom(sql_content, pos), w_begin)
             end_match == SearchWord(SliceFrom(sql_content, pos), w_end)
         IN  IF begin_match >= 0 /\ (end_match < 0 \/ begin_match < end_match)
             THEN FindEnd(sql_content, start_pos, begin_count + 1, pos + begin_match + 5)
             ELSE IF end_match >= 0
             THEN IF begin_count - 1 = 0
                  THEN start_pos + end_match
                  ELSE FindEnd(sql_content, start_pos, begin_count - 1, pos + end_match + 3)
             ELSE -1

\* str.strip()
Strip(s) ==
    LET kept == {i \in DOMAIN s : ~IsSpace(s[i])}
    IN  IF kept = {} THEN <<>> ELSE SubSeq(s, SetMin(kept), SetMax(kept))

_extract_procedure_body(sql_content) ==
    LET start_pos == ProcStartEnd(sql_content)
        end_pos == FindEnd(sql_content, start_pos, 1, start_pos)
        body == Strip(Slice(sql_content, start_pos, end_pos))
    IN  IF start_pos < 0 THEN sql_content
        ELSE IF end_pos > 0 /\ Len(body) > 100 THEN body
        ELSE sql_content

\* GenericSQLLineageParser.__init__ up to the body extraction; query holds
\* sql_content and procedure_body the text returned
ExtractProcedureBody ==
    /\ script = "body" /\ pc = "read"
    /\ procedure_body' = _extract_procedure_body(query)
    /\ pc' = "extracted"
    /\ UNCHANGED <<script, column_mappings, all_mappings, end_to_end_mappings, sorted_mappings>>
    /\ UNCHANGED <<graphVars, resultVars, extVars>>

(***************************************************************************)
(* The specification                                                       *)
(***************************************************************************)
\* the variables of the scripts that are not running
InitParser ==
    /\ procedure_body = {}
    /\ column_mappings = <<>>
    /\ all_mappings = <<>>
    /\ end_to_end_mappings = <<>>
    /\ sorted_mappings = [printed |-> FALSE, rows |-> <<>>]

InitGraph ==
    /\ metadata = NoMetadata
    /\ forward_graph = EmptyDict
    /\ reverse_graph = EmptyDict
    /\ all_columns = {}
    /\ lineage_graph = EmptyDict
    /\ column_metadata = EmptyDict

InitResult ==
    /\ calls = 0
    /\ query = NoQuery
    /\ found_paths = <<>>
    /\ found_columns = {}
    /\ lineages = {}

InitSchema ==
    /\ schema = EmptyDict
    /\ source_tables = {}
    /\ target_tables = {}
    /\ intermediate_tables = {}
    /\ column_flows = EmptyDict
    /\ table_column_map = EmptyDict
    /\ column_table_map = EmptyDict

InitExt ==
    /\ InitSchema
    /\ dml_statements = <<>>
    /\ csharp_metadata = NoCsharpMetadata
    /\ table_categories = NoCategories
    /\ frames = NoFrames

InitGeneric ==
    /\ script = "generic" /\ pc = "analyze"
    /\ procedure_body \in ProcedureBodies
    /\ column_mappings = <<>>
    /\ all_mappings = <<>>
    /\ end_to_end_mappings = <<>>
    /\ sorted_mappings = [printed |-> FALSE, rows |-> <<>>]
    /\ InitGraph /\ InitResult /\ InitExt

InitAnalyzer ==
    /\ script = "analyzer" /\ pc = "metadata"
    /\ InitParser /\ InitGraph /\ InitResult /\ InitExt

InitTracer ==
    /\ script = "tracer" /\ pc = "metadata"
    /\ InitParser /\ InitGraph /\ InitResult /\ InitExt

InitEnhanced ==
    /\ script = "enhanced" /\ pc = "load"
    /\ InitParser /\ InitResult
    /\ metadata \in EnhancedMetadataFiles
    /\ forward_graph = EmptyDict
    /\ reverse_graph = EmptyDict
    /\ all_columns = {}
    /\ lineage_graph = EmptyDict
    /\ column_metadata = EmptyDict
    /\ schema \in Schemas
    /\ source_tables = {}
    /\ target_tables = {}
    /\ intermediate_tables = {}
    /\ column_flows = EmptyDict
    /\ table_column_map = EmptyDict
    /\ column_table_map = EmptyDict
    /\ dml_statements = <<>>
    /\ csharp_metadata = NoCsharpMetadata
    /\ table_categories = NoCategories
    /\ frames = NoFrames

InitHybrid ==
    /\ script = "hybrid" /\ pc = "analyze"
    /\ InitParser /\ InitGraph /\ InitResult
    /\ csharp_metadata \in CsharpMetadataFiles
    /\ schema = EmptyDict
    /\ source_tables = _initialize_from_csharp_metadata(csharp_metadata).source
    /\ target_tables = _initialize_from_csharp_metadata(csharp_metadata).target
    /\ intermediate_tables = {}
    /\ column_flows = EmptyDict
    /\ table_column_map = EmptyDict
    /\ column_table_map = EmptyDict
    /\ dml_statements = <<>>
    /\ table_categories = NoCategories
    /\ frames = NoFrames

InitAdvanced ==
    /\ script = "advanced" /\ pc = "build"
    /\ InitParser /\ InitGraph /\ InitResult /\ InitExt

InitUltimate ==
    /\ script = "ultimate" /\ pc = "build"
    /\ InitParser /\ InitGraph /\ InitResult
    /\ schema = EmptyDict
    /\ source_tables = {}
    /\ target_tables = {}
    /\ intermediate_tables = {}
    /\ column_flows = <<>>
    /\ table_column_map = EmptyDict
    /\ column_table_map = EmptyDict
    /\ dml_statements = <<>>
    /\ csharp_metadata = NoCsharpMetadata
    /\ table_categories = NoAllTables
    /\ frames = NoFrames

\* lineage_parser.py before its loop over dml_statements
InitLineage ==
    /\ script = "lineage" /\ pc = "build"
    /\ InitParser /\ InitGraph /\ InitResult
    /\ schema = EmptyDict
    /\ source_tables = {}
    /\ target_tables = {}
    /\ intermediate_tables = {}
    /\ column_flows = <<>>
    /\ table_column_map = EmptyDict
    /\ column_table_map = EmptyDict
    /\ dml_statements = <<>>
    /\ csharp_metadata = NoCsharpMetadata
    /\ table_categories = NoCategories
    /\ frames = NoFrames

\* final_comprehensive_parser.py: procedure_body holds the lines of the SQL
InitFinal ==
    /\ script = "final" /\ pc = "analysis"
    /\ procedure_body \in SqlTexts
    /\ column_mappings = <<>>
    /\ all_mappings = <<>>
    /\ end_to_end_mappings = <<>>
    /\ sorted_mappings = [printed |-> FALSE, rows |-> <<>>]
    /\ InitGraph /\ InitResult /\ InitExt

\* the generic parser constructed on a SQL file: query holds sql_content
InitBody ==
    /\ script = "body" /\ pc = "read"
    /\ InitParser /\ InitGraph /\ InitExt
    /\ calls = 0
    /\ query \in SqlContents
    /\ found_paths = <<>>
    /\ found_columns = {}
    /\ lineages = {}

Init ==
    \/ InitGeneric \/ InitAnalyzer \/ InitTracer \/ InitEnhanced \/ InitHybrid \/ InitAdvanced
    \/ InitUltimate \/ InitLineage \/ InitFinal \/ InitBody

Next ==
    \/ \E i \in DOMAIN LineageTuples : AnalyzeStatement(i)
    \/ TraceEndToEndLineage
    \/ GenerateReport
    \/ \E i \in DOMAIN LineageRecords : EmitLineage(i)
    \/ LineageAnalyzerInit
    \/ \E source, target \in MetadataColumns, max_depth \in 1..MaxDepth :
         FindPaths(source, target, max_depth)
    \/ \E column \in MetadataColumns : FindUltimateSources(column)
    \/ \E column \in MetadataColumns : FindUltimateTargets(column)
    \/ GenerateEndToEndLineages
    \/ BuildLineageGraph
    \/ \E source_column, target_column \in MetadataColumns, max_depth \in 1..MaxDepth :
         TraceEndToEndPath(source_column, target_column, max_depth)
    \/ RunAnalysis
    \/ FindStagingSources
    \/ FindFinalTargets
    \/ BuildTableColumnMappings
    \/ CategorizeTables
    \/ \E i \in DOMAIN Statements : ExtractSqllineageFlows(i)
    \/ MergeMetadataFlows
    \/ EnhancedTraceEndToEndLineage
    \/ HybridTraceEndToEndLineage
    \/ \E i \in DOMAIN Statements : AdvancedStatement(i)
    \/ \E start_column \in StartColumns, max_depth \in 1..MaxDepth :
         TraceColumnPath(start_column, max_depth)
    \/ \E expected \in ExpectedFinalMappings : ValidateExpectedMappings(expected)
    \/ \E i \in DOMAIN UltimateStatements : UltimateStatement(i)
    \/ \E i \in DOMAIN UltimateStatements : LineageStatement(i)
    \/ BuildLineageMap
    \/ \E i \in DOMAIN Statements : TechnicalStatement(i)
    \/ ValidateExpectedLineage
    \/ ExtractProcedureBody

Spec == Init /\ [][Next]_vars

\* The searches of the analyzer and of the generic parser run step by step;
\* the interpreter goes on with a call that has not returned
SearchNext ==
    \/ \E i \in DOMAIN LineageTuples : AnalyzeStatement(i)
    \/ \E i \in DOMAIN LineageRecords : EmitLineage(i)
    \/ LineageAnalyzerInit
    \/ \E source, target \in MetadataColumns, max_depth \in 1..MaxDepth :
         CallFindPaths(source, target, max_depth)
    \/ FindPathsStep
    \/ \E column \in MetadataColumns :
         CallFindUltimate("find_ultimate_sources", column)
    \/ \E column \in MetadataColumns :
         CallFindUltimate("find_ultimate_targets", column)
    \/ FindUltimateStep
    \/ \E i \in DOMAIN LineageTuples : CallFindAllPathsToFinals(Lower(LineageTuples[i][1]))
    \/ FindAllPathsStep

SearchSpec ==
    /\ InitGeneric \/ InitAnalyzer
    /\ [][SearchNext]_vars
    /\ WF_vars(FindPathsStep) /\ WF_vars(FindUltimateStep) /\ WF_vars(FindAllPathsStep)

(***************************************************************************)
(* Properties                                                              *)
(***************************************************************************)
IsSelfMapping(m) == <<m.source_table, m.source_column>> = <<m.target_table, m.target_column>>

\* C1: no end-to-end mapping emitted by the trace of the generic parser or of
\* the enhanced parser has its source table and column equal to its target
\* table and column
NoSelfMapping ==
    script \in {"generic", "enhanced"} =>
        \A i \in DOMAIN end_to_end_mappings : ~IsSelfMapping(end_to_end_mappings[i])

\* C2: every path returned by the path search of the analyzer (find_paths),
\* of the generic parser (find_all_paths_to_finals), of the hybrid parser
\* (find_complete_paths_to_finals) and of the enhanced parser
\* (find_target_paths) contains no column more than once
SimplePathInvariant ==
    script \in {"analyzer", "generic", "hybrid", "enhanced"} =>
        \A i \in DOMAIN found_paths : NoRepeat(found_paths[i])

\* a path was returned through a column that has a self-loop
SimplePathWitness ==
    /\ script = "analyzer"
    /\ c_raw_rid \in DictGet(forward_graph, c_raw_rid, {})
    /\ \E i \in DOMAIN found_paths :
         Len(found_paths[i]) >= 3 /\ c_raw_rid \in Range(found_paths[i])

\* each record of seq, twice
Twice(seq) == [i \in 1..(2 * Len(seq)) |-> seq[(i + 1) \div 2]]

Doubled(md) == [md EXCEPT !.real_to_real = Twice(@), !.temp_involved = Twice(@)]

\* C4: the graph built from the lineage records, each repeated twice, has
\* the same successors and predecessors of every column as the graph built
\* from the records once, and no duplicate entries; for the analyzer and
\* for the tracer
IdempotentMerge ==
    /\ (script = "analyzer" /\ pc = "ready") =>
         LET g == _build_lineage_graph(EmptyGraph, Doubled(metadata))
         IN  g.forward_graph = forward_graph /\ g.reverse_graph = reverse_graph
    /\ (script = "tracer" /\ pc = "ready") =>
         LET g == build_lineage_graph(EmptyTracerGraph, Doubled(metadata))
             Same(a, b) ==
                 /\ a.keys = b.keys
                 /\ \A k \in Range(a.keys) : Range(a.val[k]) = Range(b.val[k]) /\ NoRepeat(a.val[k])
         IN  Same(g.lineage_graph, lineage_graph) /\ Same(g.reverse_graph, reverse_graph)

\* the columns that are an endpoint of an edge of the adjacency dict d
Endpoints(d, Members(_)) == Range(d.keys) \cup UNION {Members(d.val[k]) : k \in Range(d.keys)}

\* t is listed under forward[s] if and only if s is listed under reverse[t]
Mirrored(forward, reverse, Members(_)) ==
    \A s, t \in Endpoints(forward, Members) \cup Endpoints(reverse, Members) :
        (DictHas(forward, s) /\ t \in Members(forward.val[s]))
            <=> (DictHas(reverse, t) /\ s \in Members(reverse.val[t]))

SetMembers(S) == S

\* C5: once the graph is built, and after every call made to the analyzer, t
\* is in forward_graph[s] if and only if s is in reverse_graph[t], and
\* all_columns is the set of the endpoints of the edges; the tracer's
\* lineage_graph and reverse_graph mirror each other in the same way
ForwardReverseConsistency ==
    /\ (script = "analyzer" /\ pc = "ready") =>
         /\ Mirrored(forward_graph, reverse_graph, SetMembers)
         /\ all_columns = Endpoints(forward_graph, SetMembers)
    /\ (script = "tracer" /\ pc = "ready") =>
         /\ Mirrored(lineage_graph, reverse_graph, Range)
         /\ Range(column_metadata.keys) = Endpoints(lineage_graph, Range)

\* a call was made to an analyzer whose graph has a cycle
ForwardReverseWitness ==
    /\ script = "analyzer" /\ pc = "ready" /\ calls > 0
    /\ c_raw_rid \in DictGet(forward_graph, c_core_work_id, {})
    /\ c_core_work_id \in DictGet(forward_graph, c_raw_rid, {})

\* C8: a second run of the generic trace and of the report's sort over the
\* same column edges and the same SQL text prints the same ordered list of
\* mapping records as the run before it
Determinism ==
    [][(sorted_mappings.printed /\ sorted_mappings'.printed)
          => sorted_mappings'.rows = sorted_mappings.rows]_vars

Keys(mappings) == [i \in DOMAIN mappings |-> MappingKey(mappings[i])]

\* C9: the list the de-duplication of the generic, the hybrid and the
\* enhanced trace leaves holds each (source_table, source_column,
\* target_table, target_column) key of the list it was given exactly once
OneMappingPerPair ==
    script \in {"generic", "hybrid", "enhanced"} =>
        /\ NoRepeat(Keys(end_to_end_mappings))
        /\ Range(Keys(end_to_end_mappings)) = Range(Keys(all_mappings))

\* two paths connected one pair, and the enhanced trace kept one mapping of them
OneMappingPerPairWitness ==
    /\ script = "enhanced" /\ pc = "traced"
    /\ Len(end_to_end_mappings) > 0
    /\ \E i, j \in DOMAIN all_mappings :
         /\ i < j
         /\ MappingKey(all_mappings[i]) = MappingKey(all_mappings[j])
         /\ all_mappings[i].transformation_type = "traced"
         /\ all_mappings[j].transformation_type = "traced"

\* C10: no end-to-end mapping emitted by the generic trace has a target
\* table that _categorize_table classifies as 'intermediate'
NoIntermediateTarget ==
    script = "generic" =>
        \A i \in DOMAIN end_to_end_mappings :
            _categorize_table(end_to_end_mappings[i].target_table) # "intermediate"

\* the adjacency dict d as a function from each column to the set of its successors
GraphOf(d, Members(_)) ==
    [c \in Endpoints(d, Members) |-> IF DictHas(d, c) THEN Members(d.val[c]) ELSE {}]

RECURSIVE SimplePathsFrom(_, _, _)
\* the simple paths of the graph G that extend path by at most n edges
SimplePathsFrom(G, path, n) ==
    {path} \cup
        (IF n = 0 \/ path[Len(path)] \notin DOMAIN G THEN {}
         ELSE UNION {SimplePathsFrom(G, Append(path, t), n - 1) :
                        t \in G[path[Len(path)]] \ Range(path)})

\* the simple paths of G from a to b
SimplePaths(G, a, b) ==
    {p \in SimplePathsFrom(G, <<a>>, Cardinality(DOMAIN G)) : p[Len(p)] = b}

\* the successors an entry of the advanced tracer's lineage_graph lists
PairMembers(list) == {list[k][1] : k \in DOMAIN list}

IsTargetColumn(col) == \E target_table \in table_categories.target : Contains(target_table, col)

\* C6: every target-table column that the start column reaches by a path of
\* at most max_depth edges with no target-table column before its end is
\* among the destinations trace_column_path returns
TraceCompleteness ==
    (script = "advanced" /\ pc = "trace") =>
        \A p \in SimplePathsFrom(GraphOf(lineage_graph, PairMembers), <<query.source>>, query.max_depth) :
            (/\ IsTargetColumn(p[Len(p)])
             /\ \A k \in 1..(Len(p) - 1) : ~IsTargetColumn(p[k]))
                => p[Len(p)] \in found_columns

\* the depth limit d of a path search that went from source to target: no
\* path found has more than d edges, and when every simple path from source
\* to target has exactly d edges, a path to target is found
DepthBoundHolds(G, source, target, d) ==
    /\ \A i \in DOMAIN found_paths :
         (found_paths[i][1] = source /\ found_paths[i][Len(found_paths[i])] = target)
             => Len(found_paths[i]) - 1 <= d
    /\ (/\ SimplePaths(G, source, target) # {}
        /\ \A p \in SimplePaths(G, source, target) : Len(p) - 1 = d)
           => \E i \in DOMAIN found_paths :
                 found_paths[i][1] = source /\ found_paths[i][Len(found_paths[i])] = target

\* C7: with the depth limit d, find_paths of the analyzer,
\* trace_end_to_end_path of the tracer and find_target_paths of the enhanced
\* parser (d = 5) find a target column whose every path has exactly d edges
\* and return no path of more than d edges
DepthBound ==
    /\ (script = "analyzer" /\ pc = "ready" /\ query.source # None /\ query.target # None) =>
         DepthBoundHolds(GraphOf(forward_graph, SetMembers), query.source, query.target, query.max_depth)
    /\ (script = "tracer" /\ pc = "ready" /\ query.source # None) =>
         DepthBoundHolds(GraphOf(lineage_graph, Range), query.source, query.target, query.max_depth)
    /\ (script = "enhanced" /\ pc = "traced") =>
         \A source_table \in source_tables :
             \A k \in DOMAIN DictGet(table_column_map, source_table, <<>>) :
                 \A target \in Range(column_table_map.keys) :
                     column_table_map.val[target] \in target_tables =>
                         DepthBoundHolds(GraphOf(column_flows, SetMembers),
                                         Dot(source_table, table_column_map.val[source_table][k]),
                                         target, EnhancedDefaultMaxDepth)

\* consecutive columns of path are joined by an edge of the graph d, whose
\* values are sets
FollowsEdges(d, path) ==
    \A i \in 1..(Len(path) - 1) : DictHas(d, path[i]) /\ path[i + 1] \in d.val[path[i]]

\* what a search that has returned has returned: simple paths along edges
\* from the start to the target (find_paths) or to a column of a final target
\* table (find_all_paths_to_finals); columns without a further edge
\* (find_ultimate_sources, find_ultimate_targets)
ReturnedOnlySimplePaths ==
    LET cx == frames.closure
        returned == Range(frames.paths)
    IN  CASE frames.kind = "find_paths" ->
               \A path \in returned :
                   /\ NoRepeat(path) /\ FollowsEdges(forward_graph, path)
                   /\ path[1] = query.source /\ path[Len(path)] = query.target
          [] frames.kind = "find_all_paths_to_finals" ->
               \A path \in returned :
                   /\ NoRepeat(path) /\ FollowsEdges(cx.all_flows, path)
                   /\ path[1] = query.source /\ InFinalTable(cx, path[Len(path)])
          [] frames.kind = "find_ultimate_sources" ->
               \A column \in returned : ~DictHas(reverse_graph, column)
          [] frames.kind = "find_ultimate_targets" ->
               \A column \in returned : ~DictHas(forward_graph, column)
          [] OTHER -> TRUE

\* C3: every call of find_all_paths_to_finals, find_paths, find_ultimate_sources
\* and find_ultimate_targets eventually returns, on graphs with cycles too, and
\* what it returns are simple paths that end at the target or at a column of a
\* final table
TerminationOnCycles ==
    /\ (frames.kind # "none") ~> frames.done
    /\ [](frames.done => ReturnedOnlySimplePaths)

\* find_all_paths_to_finals has returned a path that passes through a column
\* of a cycle
TerminationOnCyclesWitness ==
    /\ frames.kind = "find_all_paths_to_finals" /\ frames.done
    /\ LET all_flows == frames.closure.all_flows
       IN  \E i \in DOMAIN frames.paths :
             \E k \in 2..(Len(frames.paths[i]) - 1) :
               \E b \in all_flows.val[frames.paths[i][k]] :
                  DictHas(all_flows, b) /\ frames.paths[i][k] \in all_flows.val[b]

\* the name matches an intermediate pattern and also a source or a target pattern
Overlapping(name, source, target, intermediate) ==
    /\ AnyContains(intermediate, Lower(name))
    /\ AnyContains(source, Lower(name)) \/ AnyContains(target, Lower(name))

\* the table names of the column mappings recorded by the generic parser
MappedTables ==
    {TablePart(column_mappings[k].source_column) : k \in DOMAIN column_mappings}
        \cup {TablePart(column_mappings[k].target_column) : k \in DOMAIN column_mappings}

\* C11: in every classifier a table name that matches an intermediate pattern
\* and also a source or target pattern is classified intermediate, never
\* source or target
ClassificationPriority ==
    /\ script = "ultimate" =>
         \A name \in table_categories.source \cup table_categories.target :
            ~Overlapping(name, ultimate_source_patterns, ultimate_target_patterns,
                         ultimate_intermediate_patterns)
    /\ script = "generic" =>
         \A name \in MappedTables :
            Overlapping(name, source_patterns, target_patterns, intermediate_patterns)
               => _categorize_table(name) = "intermediate"
    /\ (script = "enhanced" /\ pc \notin {"load", "categorize"}) =>
         \A name \in Range(table_column_map.keys) :
            Overlapping(name, enhanced_source_patterns, enhanced_target_patterns,
                        enhanced_intermediate_patterns)
               => /\ Lower(name) \in intermediate_tables
                  /\ metadata = NoMetadata => Lower(name) \notin source_tables \cup target_tables

\* no table is in two of the collections
DisjointCategories ==
    /\ source_tables \cap target_tables = {}
    /\ source_tables \cap intermediate_tables = {}
    /\ target_tables \cap intermediate_tables = {}

\* C12: after analyze of the generic parser and after _categorize_tables of the
\* enhanced parser no table name is in more than one of the source, target and
\* intermediate table collections
OneCategoryPerTable ==
    /\ (script = "generic" /\ pc \in {"traced", "reported"}) => DisjointCategories
    /\ (script = "enhanced" /\ pc \notin {"load", "categorize"}) => DisjointCategories

\* C13: in the hybrid parser the columns of every table listed in the
\* metadata's source_tables are start columns of the end-to-end trace: every
\* complete path from such a column is among the paths the trace found, also
\* when the table name starts with '#' or is a CTE-alias name
AllowListWins ==
    (script = "hybrid" /\ pc = "traced") =>
        LET cx == HybridContext(column_mappings, csharp_metadata)
            listed == {col \in Range(cx.comprehensive_flows.keys) :
                          /\ DictHas(cx.comprehensive_column_to_table, col)
                          /\ cx.comprehensive_column_to_table.val[col] \in cx.source_tables}
        IN  \A col \in listed :
               Range(find_complete_paths_to_finals(cx, col, {}, <<>>)) \subseteq Range(found_paths)

\* C14: in the hybrid parser every intermediate column and target column with
\* the same unqualified name and no direct flow between them are joined by a
\* bridge: the edge is in the flows the trace runs on, also when the
\* intermediate column matches columns of two target tables
BridgeCompleteness ==
    (script = "hybrid" /\ pc = "traced") =>
        LET flows == AddCsharpFlows(AddPythonFlows(EmptyDict, column_mappings),
                                    csharp_metadata.column_lineages)
            c2t == ComprehensiveColumnToTable(flows)
            sources == {Lower(t) : t \in Range(csharp_metadata.source_tables)}
            finals == {Lower(t) : t \in Range(csharp_metadata.target_tables)}
            bridged == ComprehensiveFlows(column_mappings, csharp_metadata)
        IN  \A i \in Range(c2t.keys), t \in Range(c2t.keys) :
               ( /\ IsTempName(c2t.val[i])
                 /\ c2t.val[i] \notin sources \cup finals
                 /\ c2t.val[t] \in finals
                 /\ ColumnPart(i) = ColumnPart(t)
                 /\ t \notin Range(DictGet(flows, i, <<>>)) )
               => t \in Range(DictGet(bridged, i, <<>>))

\* the hybrid trace's context when no bridge is added to the extracted flows
ExtractedContext(mappings, md) ==
    LET flows == AddCsharpFlows(AddPythonFlows(EmptyDict, mappings), md.column_lineages)
    IN  [HybridContext(mappings, md) EXCEPT
            !.comprehensive_flows = flows,
            !.comprehensive_column_to_table = ComprehensiveColumnToTable(flows)]

\* the mappings of a list that start at a column
MappingsFrom(mappings, col) ==
    {mappings[i] : i \in {j \in DOMAIN mappings :
        /\ mappings[j].source_table = TablePart(col)
        /\ mappings[j].source_column = ColumnPart(col)}}

\* C15: in the hybrid trace the bridge edges are a fallback: for a start
\* column from which the extracted flows alone reach a final target column,
\* the mappings emitted are exactly those derivable without any bridge edge
BridgingIsFallback ==
    (script = "hybrid" /\ pc = "traced") =>
        LET cx == ExtractedContext(column_mappings, csharp_metadata)
            extracted == unique_mappings(HybridMappings(cx))
        IN  \A col \in Range(cx.comprehensive_flows.keys) :
               (IsOriginalSource(cx, col) /\ find_complete_paths_to_finals(cx, col, {}, <<>>) # <<>>)
               => MappingsFrom(end_to_end_mappings, col) = MappingsFrom(extracted, col)

\* a path the enhanced trace found for the pair of a mapping
HasTracedPath(m) ==
    \E k \in DOMAIN found_paths :
        LET path == found_paths[k]
            final_column == path[Len(path)]
        IN  /\ Len(path) >= 2
            /\ path[1] = Dot(m.source_table, m.source_column)
            /\ DictHas(column_table_map, final_column)
            /\ column_table_map.val[final_column] = m.target_table
            /\ ColumnPart(final_column) = m.target_column

\* C16: in the enhanced trace a pair with a path traced through the extracted
\* column flows is emitted once and labelled 'traced', also when the schema
\* name matching proposes it; a pair is labelled 'schema_exact_match' or
\* 'schema_transform_match' only if no traced path exists for it
ExtractedBeatsHeuristic ==
    (script = "enhanced" /\ pc = "traced") =>
        \A i \in DOMAIN end_to_end_mappings :
            LET m == end_to_end_mappings[i]
            IN  /\ HasTracedPath(m) => m.transformation_type = "traced"
                /\ m.transformation_type \in {"schema_exact_match", "schema_transform_match"}
                      => ~HasTracedPath(m)
                /\ \A j \in DOMAIN end_to_end_mappings :
                      MappingKey(end_to_end_mappings[j]) = MappingKey(m) => j = i

\* a traced pair that the schema name matching proposes too
ExtractedBeatsHeuristicWitness ==
    /\ script = "enhanced" /\ pc = "traced"
    /\ \E i \in DOMAIN end_to_end_mappings, j \in DOMAIN all_mappings :
          /\ HasTracedPath(end_to_end_mappings[i])
          /\ end_to_end_mappings[i].transformation_type = "traced"
          /\ MappingKey(all_mappings[j]) = MappingKey(end_to_end_mappings[i])
          /\ all_mappings[j].transformation_type \in {"schema_exact_match", "schema_transform_match"}

\* C17: a column-lineage tuple with an empty source or target adds no edge:
\* every entry of the ultimate script's column_flows is a tuple of its
\* statement with both ends given, and no entry has a placeholder column
NoPlaceholderEdge ==
    script = "ultimate" =>
        \A k \in DOMAIN column_flows :
            LET column_lineage == UltimateStatements[dml_statements[column_flows[k][3]]].column_lineage
            IN  /\ \E n \in DOMAIN column_lineage :
                      /\ column_lineage[n][1] # None /\ column_lineage[n][2] # None
                      /\ column_lineage[n][1] = column_flows[k][1]
                      /\ column_lineage[n][2] = column_flows[k][2]
                /\ column_flows[k][1] # w_unknown
                /\ column_flows[k][2] # w_unknown

\* the complete lineage records of the metadata
CompleteRecords == {r \in Range(metadata.real_to_real) \cup Range(metadata.temp_involved) : Complete(r)}

\* C18: a lineage record that lacks one of source_table, source_column,
\* target_table and target_column never aborts graph construction: the
\* analyzer and the tracer get through the metadata and every complete record
\* is an edge of the graph, and the enhanced parser merges every complete
\* real_to_real record into column_flows
MalformedEdgeNeverAborts ==
    /\ pc # "aborted"
    /\ (script = "analyzer" /\ pc # "metadata") =>
          \A r \in CompleteRecords :
             /\ DictHas(forward_graph, SourceOf(r))
             /\ TargetOf(r) \in forward_graph.val[SourceOf(r)]
    /\ (script = "tracer" /\ pc # "metadata") =>
          \A r \in CompleteRecords :
             TargetOf(r) \in Range(DictGet(lineage_graph, SourceOf(r), <<>>))
    /\ (script = "enhanced" /\ pc \in {"trace", "traced"}) =>
          \A r \in {x \in Range(metadata.real_to_real) : Complete(x)} :
             Lower(TargetOf(r)) \in DictGet(column_flows, Lower(SourceOf(r)), {})

\* C19: no edge is dropped from the lineage map of lineage_parser.py: every
\* extracted tuple with both ends given is in lineage_map, so of a target
\* column with two source columns both sources are kept
NoEdgeDropped ==
    (script = "lineage" /\ pc = "mapped") =>
        \A k \in DOMAIN column_flows :
            LET source == column_flows[k][1]
                target == column_flows[k][Len(column_flows[k])]
            IN  (source # None /\ target # None)
                => DictHas(reverse_graph, target) /\ reverse_graph.val[target] = source

\* the entries of traced_mappings for an expected pair
EntriesFor(expected_source) ==
    {i \in DOMAIN all_mappings :
        /\ all_mappings[i].source = expected_source
        /\ all_mappings[i].target = end_to_end_mappings.val[expected_source]}

\* C20: the validation of the advanced tracer leaves exactly one entry of
\* traced_mappings for each expected pair, traced or not found, so the
\* successful traces are no more than the expected mappings and the entries
\* are as many as the expected mappings
OneResultPerExpectedPair ==
    (script = "advanced" /\ pc = "validated") =>
        /\ \A k \in DOMAIN end_to_end_mappings.keys :
              Cardinality(EntriesFor(end_to_end_mappings.keys[k])) = 1
        /\ Cardinality({i \in DOMAIN all_mappings : all_mappings[i].status = "TRACED"})
              <= Len(end_to_end_mappings.keys)
        /\ Len(all_mappings) = Len(end_to_end_mappings.keys)

\* C23: the length an end-to-end mapping reports is the number of edges of
\* its path, the number of its columns minus one: path_length in the generic
\* and the enhanced parser, steps in the hybrid parser
PathLengthIsEdgeCount ==
    /\ (script = "generic" /\ pc \in {"traced", "reported"}) =>
          \A i \in DOMAIN end_to_end_mappings :
             end_to_end_mappings[i].path_length = Len(end_to_end_mappings[i].full_path) - 1
    /\ (script = "hybrid" /\ pc = "traced") =>
          \A i \in DOMAIN end_to_end_mappings, k \in DOMAIN found_paths :
             Join(<<" ", "→", " ">>, found_paths[k]) = end_to_end_mappings[i].path
             => end_to_end_mappings[i].steps = Len(found_paths[k]) - 1
    /\ (script = "enhanced" /\ pc = "traced") =>
          \A i \in DOMAIN end_to_end_mappings :
             end_to_end_mappings[i].transformation_type = "traced"
             => \E k \in DOMAIN found_paths :
                   /\ found_paths[k][1] = Dot(end_to_end_mappings[i].source_table,
                                              end_to_end_mappings[i].source_column)
                   /\ ColumnPart(found_paths[k][Len(found_paths[k])])
                         = end_to_end_mappings[i].target_column
                   /\ end_to_end_mappings[i].path_length = Len(found_paths[k]) - 1

PathsWithin(G, a, b, d) == {p \in SimplePathsFrom(G, <<a>>, d) : p[Len(p)] = b}

\* C30: trace_end_to_end_path returns [source] when source is target, a path
\* from source to target of the fewest edges when target is reachable within
\* max_depth edges, and None otherwise; the shortest_path of a lineage of
\* generate_end_to_end_lineages is no longer than any simple path of its
\* pair, and is_direct says that the edge source -> target exists
ShortestPathByBFS ==
    /\ (script = "tracer" /\ pc = "ready" /\ query.source # None) =>
          LET G == GraphOf(lineage_graph, Range)
              within == PathsWithin(G, query.source, query.target, query.max_depth)
          IN  IF query.source = query.target THEN found_paths = << <<query.source>> >>
              ELSE IF within = {} THEN found_paths = <<>>
              ELSE /\ Len(found_paths) = 1
                   /\ found_paths[1] \in within
                   /\ \A p \in within : Len(found_paths[1]) <= Len(p)
    /\ (script = "analyzer" /\ pc = "ready") =>
          LET G == GraphOf(forward_graph, SetMembers)
          IN  \A l \in lineages :
                 /\ l.shortest_path \in SimplePaths(G, l.source, l.target)
                 /\ \A p \in SimplePaths(G, l.source, l.target) :
                       Len(l.shortest_path) <= Len(p)
                 /\ l.is_direct <=> (l.source \in DOMAIN G /\ l.target \in G[l.source])

\* a search that had two paths of different lengths to choose from
ShortestPathByBFSWitness ==
    /\ script = "tracer" /\ pc = "ready" /\ query.source # None
    /\ query.source # query.target
    /\ Len(found_paths) = 1
    /\ \E p \in PathsWithin(GraphOf(lineage_graph, Range), query.source, query.target,
                            query.max_depth) :
          Len(p) > Len(found_paths[1])

\* the records of seq in every order
Reordered(seq) == {[i \in DOMAIN seq |-> seq[p[i]]] : p \in Perms(DOMAIN seq)}

\* C24: the tracer's graph built from the lineage records of each list taken
\* in any other order has the same successor set of every column, the same
\* set of staging sources and the same set of final targets as the graph
\* built from the records in the order given
CommutativeMerge ==
    (script = "tracer" /\ pc = "ready") =>
        \A real \in Reordered(metadata.real_to_real), temp \in Reordered(metadata.temp_involved) :
            LET g == build_lineage_graph(EmptyTracerGraph,
                        [metadata EXCEPT !.real_to_real = real, !.temp_involved = temp])
            IN  /\ Range(g.lineage_graph.keys) = Range(lineage_graph.keys)
                /\ \A k \in Range(lineage_graph.keys) :
                      Range(g.lineage_graph.val[k]) = Range(lineage_graph.val[k])
                /\ Range(find_staging_sources(g.column_metadata))
                      = Range(find_staging_sources(column_metadata))
                /\ Range(find_final_targets(g.column_metadata))
                      = Range(find_final_targets(column_metadata))

\* the (staging source, final target) pairs of the tracer's graph that a path
\* of at least one edge connects
ConnectedPairs ==
    {pair \in Range(find_staging_sources(column_metadata)) \X Range(find_final_targets(column_metadata)) :
        LET path == trace_end_to_end_path(lineage_graph, pair[1], pair[2], TracerDefaultMaxDepth)
        IN  path # None /\ Len(path) > 1}

\* C28: run_analysis on metadata whose records are complete reaches its end
\* without raising, and the list it returns holds the (staging source, final
\* target) pairs that a path of at least one edge connects
RunAnalysisCompletes ==
    (script = "tracer" /\ pc \in {"raised", "analysed"}) =>
        /\ pc = "analysed"
        /\ {<<end_to_end_mappings[i].source_column, end_to_end_mappings[i].target_column>> :
                i \in DOMAIN end_to_end_mappings} = ConnectedPairs

\* C25: no end-to-end mapping emitted by the generic trace has a source
\* table or a target table that _categorize_table classifies as 'unknown',
\* also when the table is the target of an INSERT, MERGE or UPDATE statement
NoUnknownEndpoint ==
    script = "generic" =>
        \A i \in DOMAIN end_to_end_mappings :
            /\ _categorize_table(end_to_end_mappings[i].source_table) # "unknown"
            /\ _categorize_table(end_to_end_mappings[i].target_table) # "unknown"

RECURSIVE WalkBack(_, _, _, _)
\* the first non-intermediate column met on the walk along the links of
\* lineage_map from column backwards, None when the walk ends or comes back
\* to a column before it meets one
WalkBack(lineage_map, column, defined_cte_names, visited) ==
    IF ~is_intermediate(column, defined_cte_names) THEN column
    ELSE IF column \in visited \/ ~DictHas(lineage_map, column) THEN None
    ELSE WalkBack(lineage_map, lineage_map.val[column], defined_cte_names, visited \cup {column})

\* C29: for every entry 'target <-- source' of final_lineage the target and
\* the source are not intermediate, and the source is the first column that
\* is not intermediate on the chain of lineage_map links from the target
\* backwards, so that every column between them is intermediate
OriginalSourceResolution ==
    (script = "lineage" /\ pc = "mapped") =>
        \A target \in Range(lineages.keys) :
            /\ ~is_intermediate(target, intermediate_tables)
            /\ ~is_intermediate(lineages.val[target], intermediate_tables)
            /\ DictHas(reverse_graph, target)
            /\ lineages.val[target]
                 = WalkBack(reverse_graph, reverse_graph.val[target], intermediate_tables, {})

\* C22: an expected pair of the advanced validation is reported as TRACED
\* only with a path whose first column equals or contains the full expected
\* source column and whose last column equals or contains the full expected
\* target column
MatchStrictness ==
    (script = "advanced" /\ pc = "validated") =>
        \A i \in DOMAIN all_mappings :
            all_mappings[i].status = "TRACED" =>
                /\ Contains(Lower(all_mappings[i].source), Lower(all_mappings[i].source_actual))
                /\ Contains(Lower(all_mappings[i].target), Lower(all_mappings[i].target_actual))

\* C21: in the validation of final_comprehensive_parser the status of an
\* expected pair with no technical match follows its evidence score: 4 or
\* more gives the strong status, 2 or 3 the moderate status, less than 2 a
\* weak status, and a pair of score 2 is not validated
ValidationThresholds ==
    (script = "final" /\ pc = "reported") =>
        \A i \in DOMAIN all_mappings :
            LET result == all_mappings[i]
                score == business_evidence(procedure_body, result.source, result.target)
            IN  result.evidence_type # "Technical Match" =>
                    /\ (score >= 4) <=> (result.evidence_type = "Strong Business Logic")
                    /\ (score \in {2, 3}) <=> (result.evidence_type = "Moderate Business Logic")
                    /\ (score < 2) <=> (result.evidence_type \in {"Weak Evidence", "Not Found"})
                    /\ (score = 2) => ~result.validated

\* the offset of the END that closes the block opened by the BEGIN that ends
\* at offset start_pos of text, -1 when no END closes it
MatchingEnd(text, start_pos) ==
    LET begins == {i \in WordOffsets(text, w_begin) : i >= start_pos}
        ends == {i \in WordOffsets(text, w_end) : i >= start_pos}
        Open(e) == 1 + Cardinality({i \in begins : i < e}) - Cardinality({i \in ends : i <= e})
        closing == {e \in ends : Open(e) = 0}
    IN  IF closing = {} THEN -1 ELSE SetMin(closing)

\* C27: for a script with a procedure header whose outer block is closed,
\* the text _extract_procedure_body returns is the text between the AS BEGIN
\* of the header and the END that closes it, without the white space around
\* it, when that text is longer than 100 characters, and the whole script
\* otherwise; also when the body holds nested BEGIN ... END blocks
BalancedBodyExtraction ==
    (script = "body" /\ pc = "extracted") =>
        LET start_pos == ProcStartEnd(query)
            body == Strip(Slice(query, start_pos, MatchingEnd(query, start_pos)))
        IN  (start_pos >= 0 /\ MatchingEnd(query, start_pos) >= 0) =>
                procedure_body = IF Len(body) > 100 THEN body ELSE query

====
